---------------------------- MODULE Spec2Model ----------------------------
(***************************************************************************)
(* Synchronisation core of the dashboard: the ui-base coordinator          *)
(* (registry, debounced ui-config emission, connection registry, emit      *)
(* eligibility) and the ui-chart history buffer with its eviction          *)
(* policies.                                                               *)
(*                                                                         *)
(* JavaScript values are written as tagged records or string tokens so     *)
(* that values of different JavaScript types stay comparable.              *)
(***************************************************************************)
EXTENDS Integers, Sequences, FiniteSets, TLC

(***************************************************************************)
(* Bounds of the model.                                                    *)
(***************************************************************************)
\* number of input messages a chart node receives in one behaviour
MaxInputs == 3
\* the "maximum point count" written in the chart configurations below
MaxPoints == 2

VARIABLES
    \* ---- ui-chart (src/nodes/widgets/ui_chart.js) ----
    config,      \* the chart node's configuration (fixed after construction)
    now,         \* the wall clock, in milliseconds
    history,     \* datastore entry of the chart node: the stored messages
    sent,        \* the message last handed to send()
    nextId,      \* serial number given to the next stored message
    appended,    \* every message appended since the history was last cleared
    preWindow,   \* the history as read by the time-window filter of the last input
    lastInput,   \* "none", "empty" (empty-array payload) or "data"
    inputs,      \* number of input messages received so far
    \* ---- ui-base (src/unnamed/part_002) ----
    uiWidgets,   \* node.ui.widgets: widget id -> widget object
    uiGroups,    \* node.ui.groups: group id -> group object
    uiPages,     \* node.ui.pages: page id -> page object
    uiDashboards, \* node.ui.dashboards (ids)
    uiThemes,    \* node.ui.themes (ids)
    statestore,  \* State Store: id -> state object
    datastore,   \* History Store of the plain widgets: id -> last stored message
    nodes,       \* widget nodes that registered and have not been closed
    connections, \* uiShared.connections (socket ids)
    received,    \* per socket, the ui-config it received last
    emitConfigRequested, \* node.emitConfigRequested holds a timer handle
    timers,      \* number of debounce timeouts waiting in the event loop
    calls,       \* requestEmitConfig calls since the last timer fired
    lastCalls,   \* the calls the timer that fired last had collected
    fanouts,     \* ui-config fan-outs made by the timer that fired last
    plugins,     \* RED.plugins.getByType('node-red-dashboard-2'), in order
    acceptsClientConfig, \* n.acceptsClientConfig (node types)
    emitted,     \* the last emit(event, msg, wNode)
    delivered,   \* the sockets conn.emit was called on by the last emit
    forwarded,   \* the last message a widget node sent on
    lastOp,      \* the operation performed last, where a specification records it
    open,        \* sockets whose transport is connected
    listeners,   \* per socket: router listener sets attached, disconnect listener
    running,     \* the ui-base node is constructed and not closed
    widgetDefs,  \* per widget node: its widgetEvents, topic setting and reporter
    trace,       \* what the router event handled last did, in order
    lastEvent,   \* the router event handled last
    pending,     \* the onChange handlers suspended at an await, oldest first
    owner,       \* per socket: socket._baseId, the ui-base node it is mapped to
    peer,        \* a second ui-base node of the flow: absent, idle, or waiting
                 \* for its own debounce timeout
    peerDelivered \* the sockets the second node's timeout emitted ui-config to

chartVars == <<config, now, history, sent, nextId, appended, preWindow,
               lastInput, inputs>>

registryVars == <<uiWidgets, uiGroups, uiPages, uiDashboards, uiThemes>>
debounceVars == <<emitConfigRequested, timers, calls, lastCalls, fanouts>>
emitVars     == <<emitted, delivered>>
lifeVars     == <<open, listeners, running>>
routerVars   == <<widgetDefs, trace, lastEvent, pending>>
peerVars     == <<owner, peer, peerDelivered>>
settingVars  == <<plugins, acceptsClientConfig>>

baseVars == <<uiWidgets, uiGroups, uiPages, uiDashboards, uiThemes, statestore,
              datastore, nodes, connections, received, emitConfigRequested,
              timers, calls, lastCalls, fanouts, plugins, acceptsClientConfig,
              emitted, delivered, forwarded, lastOp, open, listeners, running,
              widgetDefs, trace, lastEvent, pending, owner, peer,
              peerDelivered>>

vars == <<config, now, history, sent, nextId, appended, preWindow,
          lastInput, inputs,
          uiWidgets, uiGroups, uiPages, uiDashboards, uiThemes, statestore,
          datastore, nodes, connections, received, emitConfigRequested,
          timers, calls, lastCalls, fanouts, plugins, acceptsClientConfig,
          emitted, delivered, forwarded, lastOp, open, listeners, running,
          widgetDefs, trace, lastEvent, pending, owner, peer, peerDelivered>>

(***************************************************************************)
(* Generic helpers.                                                        *)
(***************************************************************************)
SetMax(S) == CHOOSE m \in S : \A k \in S : k <= m

RemoveAt(s, i) == [j \in 1..(Len(s) - 1) |-> IF j < i THEN s[j] ELSE s[j + 1]]

Range(s) == {s[i] : i \in DOMAIN s}

\* the last n elements of s (all of s when it is shorter)
LastN(s, n) == IF Len(s) <= n THEN s ELSE SubSeq(s, Len(s) - n + 1, Len(s))

(***************************************************************************)
(* ui-chart: values.                                                       *)
(***************************************************************************)
Undefined == [k |-> "undefined"]
NumX(t)   == [k |-> "number", v |-> t]
\* a date string (an ISO timestamp), kept as its seconds and milliseconds fields
StrX(t)   == [k |-> "string", sec |-> t \div 1000, ms |-> t % 1000]

Topics     == {"A", "B"}
Categories == {"x", "y", "z"}

\* payloads: a bare number, or an object {x, y, cat}; y never steers the
\* history and is left out
NumPayload      == [k |-> "number"]
ObjPayload(x, c) == [k |-> "object", x |-> x, cat |-> c]
\* an object {x, y1, y2, ...} with one value per series: keys are the series
\* it has a value for
KeyedPayload(x, keys) == [k |-> "object", x |-> x, cat |-> Undefined, keys |-> keys]
ArrPayload(items) == [k |-> "array", items |-> items]

IsArray(p) == p.k = "array"

(***************************************************************************)
(* Chart configurations.  removeOlderPoints and removeOlder are 0 when     *)
(* the field is left empty in the editor (parseInt/parseFloat give NaN,    *)
(* and the empty string is falsy).  config.category is 'topic' for         *)
(* categoryType 'msg', 'cat' for categoryType 'property' and the list      *)
(* ["y1", "y2"] for categoryType 'json';                                   *)
(* config.xAxisProperty is 'x'.                                            *)
(***************************************************************************)
ChartConfig(chartType, xAxisType, points, older, action, categoryType) ==
    [chartType |-> chartType, xAxisType |-> xAxisType,
     removeOlderPoints |-> points, removeOlder |-> older, removeOlderUnit |-> 1,
     action |-> action, categoryType |-> categoryType]

Configs ==
    { ChartConfig("line", "linear",   MaxPoints, 0, "append",  "msg"),
      ChartConfig("line", "time",     0,         1, "append",  "msg"),
      ChartConfig("line", "time",     MaxPoints, 1, "append",  "property"),
      ChartConfig("line", "time",     MaxPoints, 0, "replace", "msg"),
      ChartConfig("line", "linear",   0,         1, "append",  "msg"),
      ChartConfig("bar",  "category", MaxPoints, 1, "append",  "property"),
      ChartConfig("line", "category", 0,         0, "append",  "msg"),
      ChartConfig("bar",  "category", 0,         0, "replace", "property") }

(***************************************************************************)
(* ui-chart: evts.beforeSend.                                              *)
(***************************************************************************)
\* getProperty(value, property) for the one-segment paths 'x' and 'cat'
GetProperty(value, property) ==
    IF value.k = "object"
    THEN (IF property = "x" THEN value.x ELSE value.cat)
    ELSE Undefined

\* RED.util.evaluateNodeProperty(config.category, config.categoryType, node, msg),
\* overridden by the payload's own property for categoryType 'property'
JsonSeries == << "y1", "y2" >>
Series(cfg, msg, p) ==
    IF cfg.categoryType = "property" THEN GetProperty(p, "cat")
    ELSE IF cfg.categoryType = "json" THEN [k |-> "list", items |-> JsonSeries]
    ELSE [k |-> "string", s |-> msg.topic]

\* s in p, for an object p
In(s, p) == "keys" \in DOMAIN p /\ s \in p.keys

AddToLine(payload, series, t) ==
    IF payload.k = "number"
    THEN [category |-> series, x |-> NumX(t)]
    ELSE IF payload.k = "object"
    THEN LET x == GetProperty(payload, "x")
         IN  [category |-> series, x |-> IF x = Undefined THEN NumX(t) ELSE x]
    ELSE [category |-> series, x |-> Undefined]

AddToBar(payload, series) == [category |-> series, x |-> Undefined]

Datapoint(cfg, msg, p, t) ==
    IF cfg.chartType = "line"
    THEN AddToLine(p, Series(cfg, msg, p), t)
    ELSE AddToBar(p, Series(cfg, msg, p))

\* the points array of a single payload for categoryType 'json': one point
\* for each series the payload has a value for
JsonPoints(p, t) ==
    LET held == SelectSeq(JsonSeries, LAMBDA s : In(s, p))
    IN  [items |-> [i \in DOMAIN held |->
                       AddToLine(p, [k |-> "string", s |-> held[i]], t)]]

\* s in p for a payload that is not an object: a TypeError
BeforeSendThrows(cfg, msg) ==
    /\ cfg.chartType = "line"
    /\ cfg.categoryType = "json"
    /\ msg.payload.k = "number"

\* msg._datapoint: one point, one point per element of an array payload, or
\* the points array of a single payload with a list of series
BeforeSend(cfg, msg, t) ==
    IF IsArray(msg.payload)
    THEN [i \in DOMAIN msg.payload.items |-> Datapoint(cfg, msg, msg.payload.items[i], t)]
    ELSE IF cfg.chartType = "line" /\ cfg.categoryType = "json"
    THEN JsonPoints(msg.payload, t)
    ELSE Datapoint(cfg, msg, msg.payload, t)

\* msg._datapoint.x and msg._datapoint.category: undefined on a points array
PointX(dp) == IF "x" \in DOMAIN dp THEN dp.x ELSE Undefined
PointCategory(dp) == IF "category" \in DOMAIN dp THEN dp.category ELSE Undefined

(***************************************************************************)
(* ui-chart: evts.onInput.                                                 *)
(***************************************************************************)
\* the messages one input appends: {...msg}, or one message per array element
NewEntries(msg, dp, firstId) ==
    IF IsArray(msg.payload)
    THEN [i \in DOMAIN msg.payload.items |->
            [id |-> firstId + i - 1, topic |-> msg.topic,
             payload |-> msg.payload.items[i], _datapoint |-> dp[i]]]
    ELSE << [id |-> firstId, topic |-> msg.topic,
             payload |-> msg.payload, _datapoint |-> dp] >>

\* the key under which seen[series] files a message
CategoryKey(m) ==
    LET category == PointCategory(m._datapoint)
    IN  IF category = Undefined THEN "undefined"
        ELSE IF category.k = "list" THEN "y1,y2"
        ELSE category.s

SetMin(S) == CHOOSE m \in S : \A k \in S : m <= k

\* a collapse that keeps the first message of each category
CategoryCollapseFirst(_msg) ==
    LET indices == {SetMin({i \in DOMAIN _msg : CategoryKey(_msg[i]) = key}) :
                        key \in {CategoryKey(_msg[i]) : i \in DOMAIN _msg}}
    IN  SelectSeq(_msg, LAMBDA m : \E i \in indices : _msg[i] = m)

\* keep just the latest message of each category
CategoryCollapse(_msg) ==
    LET seen == [key \in {CategoryKey(_msg[i]) : i \in DOMAIN _msg} |->
                    SetMax({i \in DOMAIN _msg : CategoryKey(_msg[i]) = key})]
        indices == {seen[key] : key \in DOMAIN seen}
        Keep(i, acc) == IF i \in indices THEN Append(acc, _msg[i]) ELSE acc
        F[i \in 0..Len(_msg)] == IF i = 0 THEN << >> ELSE Keep(i, F[i - 1])
    IN  F[Len(_msg)]

\* trawl through in reverse order, keeping up to maxPoints messages per label
RECURSIVE CountScan(_, _, _, _)
CountScan(_msg, i, lineCounts, maxPoints) ==
    IF i = 0 THEN _msg
    ELSE LET label == _msg[i].topic
         IN  IF lineCounts[label] >= maxPoints
             THEN CountScan(RemoveAt(_msg, i), i - 1, lineCounts, maxPoints)
             ELSE CountScan(_msg, i - 1,
                            [lineCounts EXCEPT ![label] = @ + 1], maxPoints)

\* a window that counts all labels together
CountWindowGlobal(_msg, maxPoints) == LastN(_msg, maxPoints)

\* a window that hands the kept messages back newest first
CountWindowNewestFirst(_msg, maxPoints) ==
    LET kept == CountScan(_msg, Len(_msg), [l \in Topics |-> 0], maxPoints)
    IN  [i \in 1..Len(kept) |-> kept[Len(kept) + 1 - i]]

CountWindow(_msg, maxPoints) ==
    CountScan(_msg, Len(_msg), [l \in Topics |-> 0], maxPoints)

\* (new Date(x)).getTime() of a date string
DateGetTime(x) == NumX(x.sec * 1000 + x.ms)

\* the timestamp the filter compares: x itself, or the parsed date string
Timestamp(x) == IF x.k = "string" THEN DateGetTime(x) ELSE x

Cutoff(cfg, t) == t - (cfg.removeOlder * cfg.removeOlderUnit) * 1000

\* timestamp > cutoff; an undefined timestamp compares false
NewerThan(timestamp, cutoff) == timestamp.k = "number" /\ timestamp.v > cutoff

\* the filter without the string conversion: a string never compares
\* greater than a number it cannot be read as
TimeWindowUnparsed(_msg, cutoff) ==
    SelectSeq(_msg, LAMBDA m : NewerThan(PointX(m._datapoint), cutoff))

TimeWindow(_msg, cutoff) ==
    SelectSeq(_msg, LAMBDA m : NewerThan(Timestamp(PointX(m._datapoint)), cutoff))

CollapseApplies(cfg) == cfg.xAxisType = "category"
CountApplies(cfg)    == ~CollapseApplies(cfg) /\ cfg.removeOlderPoints # 0
TimeApplies(cfg)     == cfg.xAxisType = "time" /\ cfg.removeOlder # 0
                        /\ cfg.removeOlderUnit # 0

\* a selection that runs the count window on what the collapse has left
WindowedBoth(cfg, _msg) ==
    LET collapsed == IF cfg.xAxisType = "category" THEN CategoryCollapse(_msg)
                     ELSE _msg
    IN  IF cfg.removeOlderPoints # 0
        THEN CountWindow(collapsed, cfg.removeOlderPoints)
        ELSE collapsed

\* the history after the append, before the time window
Windowed(cfg, _msg) ==
    IF CollapseApplies(cfg) THEN CategoryCollapse(_msg)
    ELSE IF CountApplies(cfg) THEN CountWindow(_msg, cfg.removeOlderPoints)
    ELSE _msg

\* the input messages a flow may deliver at clock reading t
ChartMsgs(t) ==
    { [topic |-> "A", payload |-> ObjPayload(Undefined, [k |-> "string", s |-> "x"])],
      [topic |-> "A", payload |-> ObjPayload(Undefined, [k |-> "string", s |-> "y"])],
      [topic |-> "B", payload |-> ObjPayload(Undefined, [k |-> "string", s |-> "x"])],
      [topic |-> "A", payload |-> ObjPayload(NumX(0), [k |-> "string", s |-> "z"])],
      [topic |-> "B", payload |-> ObjPayload(StrX(t), [k |-> "string", s |-> "y"])],
      [topic |-> "A", payload |-> ObjPayload(StrX(0), [k |-> "string", s |-> "y"])],
      [topic |-> "A", payload |-> NumPayload],
      [topic |-> "A", payload |-> ArrPayload(<< >>)],
      [topic |-> "A", payload |-> ArrPayload(
            << ObjPayload(Undefined, [k |-> "string", s |-> "x"]),
               ObjPayload(NumX(0), [k |-> "string", s |-> "z"]) >>)] }

\* time that passes between two inputs, in milliseconds
Delays == {0, 500}

\* datastore.save(base, node, value) and datastore.append(base, node, m) on
\* the chart node's entry: save replaces it, append pushes one message
DataSave(value) == value
DataAppend(_msg, m) == Append(_msg, m)

\* msg.payload.forEach(... datastore.append ...), or the single append
RECURSIVE AppendAll(_, _)
AppendAll(_msg, entries) ==
    IF entries = << >> THEN _msg
    ELSE AppendAll(DataAppend(_msg, Head(entries)), Tail(entries))

\* an input that clears nothing
ClearsNothing(msg) == FALSE

\* Array.isArray(msg.payload) && !msg.payload.length
ClearsHistory(msg) == IsArray(msg.payload) /\ Len(msg.payload.items) = 0

\* a 'replace' that clears nothing
ReplaceBaseKeeps(cfg, _msg) == _msg

\* if (config.action === 'replace') datastore.save(base, node, [])
ReplaceBase(cfg, _msg) ==
    IF cfg.action = "replace" THEN DataSave(<< >>) ELSE _msg

\* one input message to the chart node: beforeSend, then onInput
ChartInput(msg, delay) ==
    /\ inputs < MaxInputs
    /\ LET t       == now + delay
           dp      == BeforeSend(config, msg, t)
           empty   == ClearsHistory(msg)
           replace == config.action = "replace"
           base    == ReplaceBase(config, history)
           entries == NewEntries(msg, dp, nextId)
           stored  == Windowed(config, AppendAll(base, entries))
       IN  /\ now' = t
           /\ inputs' = inputs + 1
           /\ sent' = msg
           /\ IF BeforeSendThrows(config, msg)
              THEN /\ lastInput' = "thrown"
                   /\ UNCHANGED <<history, appended, nextId, preWindow>>
              ELSE IF empty
              THEN /\ history' = DataSave(<< >>)
                   /\ appended' = << >>
                   /\ lastInput' = "empty"
                   /\ UNCHANGED <<nextId, preWindow>>
              ELSE /\ nextId' = nextId + Len(entries)
                   /\ appended' = (IF replace THEN << >> ELSE appended) \o entries
                   /\ lastInput' = "data"
                   /\ preWindow' = stored
                   /\ history' = IF TimeApplies(config)
                                 THEN DataSave(TimeWindow(stored, Cutoff(config, t)))
                                 ELSE DataSave(stored)
    /\ UNCHANGED config
    /\ UNCHANGED baseVars

(***************************************************************************)
(* ui-base: the nodes of the flow.  A widget's configuration names its     *)
(* group (widgetConfig.group), a group's names its page (group.page) and   *)
(* a page's names its theme (page.theme).                                  *)
(***************************************************************************)
\* saturation point of the requestEmitConfig call counter
MaxCalls == 2

Null      == "null"
BaseId    == "base"
WidgetIds == {"w1", "w2", "w3"}
GroupIds  == {"g1", "g2"}
PageIds   == {"p1"}
Sockets   == {"c1", "c2"}

GroupOf(w) == IF w = "w3" THEN "g2" ELSE "g1"
PageOf(g)  == "p1"
ThemeOf(p) == "t1"
TypeOf(w)  == IF w = "w1" THEN "ui-text"
              ELSE IF w = "w2" THEN "ui-control" ELSE "ui-template"

\* { ...a, ...b }
Spread(a, b) == [key \in DOMAIN a \cup DOMAIN b |->
                    IF key \in DOMAIN b THEN b[key] ELSE a[key]]

\* map.set(id, value) and map.delete(id)
MapSet(map, id, value) == [i \in DOMAIN map \cup {id} |->
                              IF i = id THEN value ELSE map[i]]
MapDelete(map, id) == [i \in DOMAIN map \ {id} |-> map[i]]

\* JavaScript truthiness of a value token
Truthy(v) == v \notin {"", "undefined", "false", "null"}

(***************************************************************************)
(* State Store (store/state.js): getProperty, getAll, set.                 *)
(***************************************************************************)
StateProps == {"enabled", "visible", "class"}

\* statestore.getProperty(id, prop): undefined for a property never set
StateGetProperty(store, id, prop) ==
    IF id \in DOMAIN store /\ prop \in DOMAIN store[id]
    THEN store[id][prop] ELSE "undefined"

\* statestore.set(base, node, msg, prop, value)
StateSet(store, id, prop, value) ==
    MapSet(store, id,
           Spread(IF id \in DOMAIN store THEN store[id] ELSE << >>,
                  [key \in {prop} |-> value]))

\* seeding that writes the defaults whatever is stored
SeedAlways(store, id) ==
    StateSet(StateSet(StateSet(store, id, "enabled", "true"),
                      id, "visible", "true"), id, "class", "")

\* node.register: default states, written only where the property reads undefined
SeedDefaults(store, id) ==
    LET s1 == IF StateGetProperty(store, id, "enabled") = "undefined"
              THEN StateSet(store, id, "enabled", "true") ELSE store
        s2 == IF StateGetProperty(s1, id, "visible") = "undefined"
              THEN StateSet(s1, id, "visible", "true") ELSE s1
    IN  IF StateGetProperty(s2, id, "class") = "undefined"
        THEN StateSet(s2, id, "class", "") ELSE s2

(***************************************************************************)
(* requestEmitConfig and emitConfig.                                       *)
(***************************************************************************)
CountUp(n) == IF n < MaxCalls THEN n + 1 ELSE n

\* a request that schedules a timeout whether or not one is pending
RequestAlwaysSchedules ==
    /\ emitConfigRequested' = TRUE
    /\ timers' = timers + 1
    /\ calls' = CountUp(calls)
    /\ fanouts' = IF timers = 0 THEN 0 ELSE fanouts
    /\ UNCHANGED lastCalls

\* a request that sets the flag and no timeout
RequestSetsFlagOnly ==
    /\ emitConfigRequested' = TRUE
    /\ calls' = CountUp(calls)
    /\ UNCHANGED <<timers, fanouts, lastCalls>>

\* node.requestEmitConfig()
RequestEmitConfig ==
    /\ IF emitConfigRequested
       THEN UNCHANGED <<emitConfigRequested, timers, fanouts>>
       ELSE /\ emitConfigRequested' = TRUE
            /\ timers' = timers + 1
            /\ fanouts' = 0
    /\ calls' = CountUp(calls)
    /\ UNCHANGED lastCalls

\* emitConfig's three loops: the State Store entries spread over the
\* widget's props and state, over the page and over the group
\* a merge that leaves the state view of the widgets alone
MergedWidgetsPropsOnly(widgets, store) ==
    [id \in DOMAIN widgets |->
        IF id \in DOMAIN store
        THEN [widgets[id] EXCEPT !.props = Spread(@, store[id])]
        ELSE widgets[id]]

MergedWidgets(widgets, store) ==
    [id \in DOMAIN widgets |->
        IF id \in DOMAIN store
        THEN [widgets[id] EXCEPT !.props = Spread(@, store[id]),
                                 !.state = Spread(@, store[id])]
        ELSE widgets[id]]

MergedObjects(objects, store) ==
    [id \in DOMAIN objects |->
        IF id \in DOMAIN store THEN Spread(objects[id], store[id])
        ELSE objects[id]]

\* what socket.emit('ui-config', node.id, {...}) carries; the hooks of a
\* widget are functions and do not travel
Wire(widget) == [type |-> widget.type, props |-> widget.props, state |-> widget.state]

UiConfig(dashboards, pages, themes, groups, widgets) ==
    [dashboards |-> dashboards, pages |-> pages, themes |-> themes,
     groups |-> groups, widgets |-> [id \in DOMAIN widgets |-> Wire(widgets[id])]]

NoConfig == [none |-> TRUE]

\* an emission that reaches one socket of the targets only
EmitConfigToOne(targets, widgets, groups, pages, dashboards, themes, store) ==
    IF targets = {}
    THEN /\ uiWidgets' = widgets
         /\ uiGroups' = groups
         /\ uiPages' = pages
         /\ UNCHANGED received
    ELSE /\ uiWidgets' = MergedWidgets(widgets, store)
         /\ uiPages' = MergedObjects(pages, store)
         /\ uiGroups' = MergedObjects(groups, store)
         /\ received' = [c \in Sockets |->
                IF c = (CHOOSE t \in targets : TRUE)
                THEN UiConfig(dashboards, MergedObjects(pages, store), themes,
                              MergedObjects(groups, store),
                              MergedWidgets(widgets, store))
                ELSE received[c]]

\* an emission that reaches every connection whatever the targets
EmitConfigToAll(targets, widgets, groups, pages, dashboards, themes, store) ==
    IF targets = {}
    THEN /\ uiWidgets' = widgets
         /\ uiGroups' = groups
         /\ uiPages' = pages
         /\ UNCHANGED received
    ELSE /\ uiWidgets' = MergedWidgets(widgets, store)
         /\ uiPages' = MergedObjects(pages, store)
         /\ uiGroups' = MergedObjects(groups, store)
         /\ received' = [c \in Sockets |->
                IF c \in targets \cup connections
                THEN UiConfig(dashboards, MergedObjects(pages, store), themes,
                              MergedObjects(groups, store),
                              MergedWidgets(widgets, store))
                ELSE received[c]]

\* emitConfig(socket) for every socket of targets, on the registry as the
\* caller leaves it
EmitConfigTo(targets, widgets, groups, pages, dashboards, themes, store) ==
    IF targets = {}
    THEN /\ uiWidgets' = widgets
         /\ uiGroups' = groups
         /\ uiPages' = pages
         /\ UNCHANGED received
    ELSE /\ uiWidgets' = MergedWidgets(widgets, store)
         /\ uiPages' = MergedObjects(pages, store)
         /\ uiGroups' = MergedObjects(groups, store)
         /\ received' = [c \in Sockets |->
                IF c \in targets
                THEN UiConfig(dashboards, MergedObjects(pages, store), themes,
                              MergedObjects(groups, store),
                              MergedWidgets(widgets, store))
                ELSE received[c]]

Op(name, widget, threw) == [op |-> name, widget |-> widget, threw |-> threw]

\* the timeout of requestEmitConfig fires
TimerFire ==
    /\ timers > 0
    /\ timers' = timers - 1
    /\ EmitConfigTo(connections, uiWidgets, uiGroups, uiPages, uiDashboards,
                    uiThemes, statestore)
    /\ emitConfigRequested' = FALSE
    /\ lastCalls' = calls
    /\ calls' = 0
    /\ fanouts' = CountUp(fanouts)
    /\ UNCHANGED <<uiDashboards, uiThemes, statestore, datastore, nodes,
                   connections, plugins, acceptsClientConfig, emitted,
                   delivered, forwarded>>
    /\ UNCHANGED <<peerVars, chartVars, lifeVars, routerVars>>

\* a timeout whose emission throws and leaves the flag as it was
TimerFireThrowsKeepsFlag(reached) ==
    /\ timers > 0
    /\ reached \subseteq connections
    /\ reached # connections
    /\ timers' = timers - 1
    /\ EmitConfigTo(reached, uiWidgets, uiGroups, uiPages, uiDashboards,
                    uiThemes, statestore)
    /\ lastCalls' = calls
    /\ calls' = 0
    /\ UNCHANGED <<emitConfigRequested, fanouts>>
    /\ UNCHANGED <<uiDashboards, uiThemes, statestore, datastore, nodes,
                   connections, plugins, acceptsClientConfig, emitted,
                   delivered, forwarded>>
    /\ UNCHANGED <<peerVars, chartVars, lifeVars, routerVars>>

\* the timeout callback when emitConfig throws at one of the sockets: the
\* sockets served before it have their ui-config, the others have not, and
\* the finally clause clears emitConfigRequested
TimerFireThrows(reached) ==
    /\ timers > 0
    /\ reached \subseteq connections
    /\ reached # connections
    /\ timers' = timers - 1
    /\ EmitConfigTo(reached, uiWidgets, uiGroups, uiPages, uiDashboards,
                    uiThemes, statestore)
    /\ emitConfigRequested' = FALSE
    /\ lastCalls' = calls
    /\ calls' = 0
    /\ UNCHANGED fanouts
    /\ UNCHANGED <<uiDashboards, uiThemes, statestore, datastore, nodes,
                   connections, plugins, acceptsClientConfig, emitted,
                   delivered, forwarded>>
    /\ UNCHANGED <<peerVars, chartVars, lifeVars, routerVars>>

\* a widget node: the widgetEvents it registers with, the topic setting of
\* its configuration, and whether it has an error function of its own
\*   onAction   "none" | "yes"                 widgetEvents.onAction
\*   beforeSend "none" | "mark" | "throw" | "reject"
\*   onChange   "none" | "custom" | "throw"     "none": the default handler
\*   onSend     "none" | "custom" | "throw"
\*   onError    "none" | "function"
\*   topic      "none" | a topic | "throw"      appendTopic on widgetConfig
\*   send       "ok" | "throw"                  wNode.send
\*   error      typeof wNode.error === 'function'
\*   passthru   "unset" | "true" | "false"      widgetConfig.passthru
\*   onInput    "none" | "custom"               widgetEvents.onInput
PlainDef ==
    [onAction |-> "none", beforeSend |-> "none", onChange |-> "none",
     onSend |-> "none", onError |-> "none", topic |-> "none", send |-> "ok",
     error |-> TRUE, passthru |-> "unset", onInput |-> "none"]
PlainDefs == [w \in WidgetIds |-> PlainDef]

\* widgetEvents as node.register receives them
EventsOf(def) ==
    [onAction |-> def.onAction, beforeSend |-> def.beforeSend,
     onChange |-> def.onChange, onSend |-> def.onSend, onError |-> def.onError]

\* widgetEvents of a widget that is not in node.ui.widgets: {}
NoEvents == EventsOf(PlainDef)

(***************************************************************************)
(* node.register and node.deregister.                                      *)
(***************************************************************************)
\* widgetConfig as the widget node passes it: its group, and the topic and
\* passthru settings where the editor has them set
ConfigProps(w) ==
    LET grouped == [group |-> GroupOf(w)]
        topical == IF widgetDefs[w].topic = "none" THEN grouped
                   ELSE MapSet(grouped, "topic", widgetDefs[w].topic)
    IN  IF widgetDefs[w].passthru = "unset" THEN topical
        ELSE MapSet(topical, "passthru", widgetDefs[w].passthru)

\* the widget object: onSocket says whether widgetEvents declares custom
\* socket events, handlers is widget._onSocketHandlers, the socket its bound
\* handlers were made for last (none at first)
NewWidget(w, store) ==
    [type |-> TypeOf(w),
     props |-> ConfigProps(w),
     state |-> store[w], onSocket |-> (TypeOf(w) = "ui-template"),
     hooks |-> EventsOf(widgetDefs[w]), handlers |-> Null]

Register(page, group, w) ==
    LET store1 == IF w # Null THEN SeedDefaults(statestore, w) ELSE statestore
    IN  /\ statestore' = store1
        /\ uiDashboards' = uiDashboards \cup {BaseId}
        /\ uiThemes' = IF page # Null THEN uiThemes \cup {ThemeOf(page)}
                       ELSE uiThemes
        /\ uiPages' = IF page # Null
                      THEN MapSet(uiPages, page, [theme |-> ThemeOf(page)])
                      ELSE uiPages
        /\ uiGroups' = IF group # Null
                       THEN MapSet(uiGroups, group, [page |-> PageOf(group)])
                       ELSE uiGroups
        /\ uiWidgets' = IF w # Null /\ w \notin DOMAIN uiWidgets
                        THEN MapSet(uiWidgets, w, NewWidget(w, store1))
                        ELSE uiWidgets
        /\ nodes' = IF w # Null THEN nodes \cup {w} ELSE nodes
        /\ RequestEmitConfig
        /\ UNCHANGED <<datastore, connections, received, plugins,
                       acceptsClientConfig, emitted, delivered, forwarded>>
        /\ UNCHANGED <<peerVars, chartVars, lifeVars, routerVars>>

\* the id and the type that a widgetConfig object reads once a register call
\* has run "delete widget.props.id" and "delete widget.props.type" on it
\* (widget.props is the widgetConfig object itself)
StrippedId == "undefined"

\* the widget object built from a widgetConfig that an earlier register call
\* of the same node has stripped
StrippedWidget(w, store) ==
    [type |-> "undefined",
     props |-> NewWidget(w, store).props,
     state |-> store[StrippedId], onSocket |-> NewWidget(w, store).onSocket,
     hooks |-> EventsOf(widgetDefs[w]), handlers |-> Null]

\* node.register called once more by a widget node that has registered, with
\* the same page, group, widgetNode, widgetConfig and widgetEvents objects
RegisterAgain(page, group, w) ==
    LET store1 == SeedDefaults(statestore, StrippedId)
    IN  /\ w \in nodes
        /\ statestore' = store1
        /\ uiDashboards' = uiDashboards \cup {BaseId}
        /\ uiThemes' = IF page # Null THEN uiThemes \cup {ThemeOf(page)}
                       ELSE uiThemes
        /\ uiPages' = IF page # Null
                      THEN MapSet(uiPages, page, [theme |-> ThemeOf(page)])
                      ELSE uiPages
        /\ uiGroups' = IF group # Null
                       THEN MapSet(uiGroups, group, [page |-> PageOf(group)])
                       ELSE uiGroups
        /\ uiWidgets' = IF StrippedId \notin DOMAIN uiWidgets
                        THEN MapSet(uiWidgets, StrippedId, StrippedWidget(w, store1))
                        ELSE uiWidgets
        /\ RequestEmitConfig
        /\ UNCHANGED <<datastore, nodes, connections, received, plugins,
                       acceptsClientConfig, emitted, delivered, forwarded>>
        /\ UNCHANGED <<peerVars, chartVars, lifeVars, routerVars>>

\* [...node.ui.widgets] and [...node.ui.groups] spread a Map into its
\* [id, object] pairs; a pair has neither props nor page, so the filters
\* read undefined from every entry
EntryGroup(entry) == "undefined"
EntryPage(entry)  == "undefined"

WidgetsOfGroup(widgets, group) ==
    {id \in DOMAIN widgets : EntryGroup(<<id, widgets[id]>>) = group}
GroupsOfPage(groups, page) ==
    {id \in DOMAIN groups : EntryPage(<<id, groups[id]>>) = page}

\* a deregister that changes the registry and requests no emission
DeregisterSilent(page, group, w) ==
    LET widgets1 == IF w # Null THEN MapDelete(uiWidgets, w) ELSE uiWidgets
        groups1  == IF group # Null THEN MapDelete(uiGroups, group) ELSE uiGroups
        pages1   == IF page # Null THEN MapDelete(uiPages, page) ELSE uiPages
    IN  /\ uiWidgets' = widgets1
        /\ uiGroups' = groups1
        /\ uiPages' = pages1
        /\ UNCHANGED <<debounceVars, listeners>>

\* the body of node.deregister for a widget that is in the registry (or none)
DeregisterBody(page, group, w) ==
    LET bound    == IF w # Null /\ uiWidgets[w].onSocket
                    THEN uiWidgets[w].handlers ELSE Null
        widgets1 == IF w # Null THEN MapDelete(uiWidgets, w) ELSE uiWidgets
        dropGroup == group # Null /\ WidgetsOfGroup(widgets1, group) = {}
        groups1  == IF dropGroup THEN MapDelete(uiGroups, group) ELSE uiGroups
        dropPage == page # Null /\ GroupsOfPage(groups1, page) = {}
        pages1   == IF dropPage THEN MapDelete(uiPages, page) ELSE uiPages
        changes  == w # Null \/ dropGroup \/ dropPage
    IN  /\ listeners' = IF bound # Null /\ bound \in connections
                        THEN [listeners EXCEPT ![bound].custom = @ \ {w}]
                        ELSE listeners
        /\ uiWidgets' = widgets1
        /\ uiGroups' = groups1
        /\ uiPages' = pages1
        /\ IF changes THEN RequestEmitConfig ELSE UNCHANGED debounceVars

\* widget.hooks of a widget that is not in the registry: a TypeError
DeregisterThrows(w) == w # Null /\ w \notin DOMAIN uiWidgets

Deregister(page, group, w) ==
    /\ IF DeregisterThrows(w)
       THEN UNCHANGED <<uiWidgets, uiGroups, uiPages, debounceVars, listeners>>
       ELSE DeregisterBody(page, group, w)
    /\ UNCHANGED <<uiDashboards, uiThemes, statestore, datastore, nodes,
                   connections, received, plugins, acceptsClientConfig,
                   emitted, delivered, forwarded>>
    /\ UNCHANGED <<peerVars, chartVars, open, running, routerVars>>

\* a close listener that never clears the history
WidgetCloseKeepsHistory(w, removed) ==
    /\ w \in nodes
    /\ nodes' = nodes \ {w}
    /\ IF DeregisterThrows(w)
       THEN UNCHANGED <<uiWidgets, uiGroups, uiPages, debounceVars, listeners>>
       ELSE DeregisterBody(Null, Null, w)
    /\ UNCHANGED <<uiDashboards, uiThemes, statestore, datastore, connections,
                   received, plugins, acceptsClientConfig, emitted, delivered,
                   forwarded>>
    /\ UNCHANGED <<peerVars, chartVars, open, running, routerVars>>

\* widgetNode.on('close'): clear the history of a removed widget, deregister
WidgetClose(w, removed) ==
    /\ w \in nodes
    /\ nodes' = nodes \ {w}
    /\ datastore' = IF removed THEN MapDelete(datastore, w) ELSE datastore
    /\ IF DeregisterThrows(w)
       THEN UNCHANGED <<uiWidgets, uiGroups, uiPages, debounceVars, listeners>>
       ELSE DeregisterBody(Null, Null, w)
    /\ UNCHANGED <<uiDashboards, uiThemes, statestore, connections, received,
                   plugins, acceptsClientConfig, emitted, delivered, forwarded>>
    /\ UNCHANGED <<peerVars, chartVars, open, running, routerVars>>

(***************************************************************************)
(* Connections.                                                            *)
(***************************************************************************)
\* node.id of a second ui-base node of the flow
PeerId == "peer"

\* a socket nobody listens to; custom holds the widgets that have a listener
\* for their onSocket event on the socket
NoListeners == [router |-> 0, disconnect |-> FALSE, custom |-> {}]

\* the registered widgets whose widgetEvents declare custom socket events
OnSocketWidgets(widgets) == {w \in DOMAIN widgets : widgets[w].onSocket}

\* setupEventHandlers(socket): socket.on for the four router events, for the
\* onSocket events of the registered widgets and for 'disconnect'
SetupEventHandlers(l, widgets) ==
    [router |-> l.router + 1, disconnect |-> TRUE,
     custom |-> l.custom \cup OnSocketWidgets(widgets)]

\* widget._onSocketHandlers[eventName] = handler.bind(null, socket), for every
\* registered widget with onSocket
BindHandlers(widgets, socket) ==
    [w \in DOMAIN widgets |->
        IF widgets[w].onSocket THEN [widgets[w] EXCEPT !.handlers = socket]
        ELSE widgets[w]]

\* cleanupEventHandlers(socket): removeAllListeners for the four router
\* events, for 'disconnect' and for the onSocket events of the registered
\* widgets
CleanupEventHandlers(l, widgets) ==
    [router |-> 0, disconnect |-> FALSE,
     custom |-> l.custom \ OnSocketWidgets(widgets)]

\* onConnection(socket), called by the server for a new socket while the
\* node listens for 'connection': record the socket, send it the ui-config
\* at once, attach the listeners
OnConnection(socket) ==
    /\ running
    /\ socket \notin open
    /\ socket \notin connections
    /\ open' = open \cup {socket}
    /\ listeners' = [listeners EXCEPT
                        ![socket] = IF peer = "absent"
                                    THEN SetupEventHandlers(NoListeners, uiWidgets)
                                    ELSE [SetupEventHandlers(NoListeners, uiWidgets)
                                             EXCEPT !.router = @ + 1]]
    /\ \E id \in (IF peer = "absent" THEN {BaseId} ELSE {BaseId, PeerId}) :
          owner' = [owner EXCEPT ![socket] = id]
    /\ UNCHANGED <<peer, peerDelivered>>
    /\ UNCHANGED running
    /\ connections' = connections \cup {socket}
    /\ EmitConfigTo({socket}, BindHandlers(uiWidgets, socket), uiGroups, uiPages,
                    uiDashboards, uiThemes, statestore)
    /\ UNCHANGED <<uiDashboards, uiThemes, statestore, datastore, nodes,
                   debounceVars, plugins, acceptsClientConfig, emitted,
                   delivered, forwarded>>
    /\ UNCHANGED <<chartVars, routerVars>>

\* the transport of a socket closes: its 'disconnect' listener, if one is
\* attached, cleans the listeners up and deletes the socket from
\* uiShared.connections
Disconnect(socket) ==
    /\ socket \in open
    /\ open' = open \ {socket}
    /\ IF listeners[socket].disconnect
       THEN /\ listeners' = [listeners EXCEPT
                                ![socket] = CleanupEventHandlers(@, uiWidgets)]
            /\ connections' = connections \ {socket}
            /\ received' = [received EXCEPT ![socket] = NoConfig]
            /\ owner' = [owner EXCEPT ![socket] = Null]
       ELSE UNCHANGED <<listeners, connections, received, owner>>
    /\ UNCHANGED <<running, peer, peerDelivered>>
    /\ UNCHANGED <<registryVars, statestore, datastore, nodes, debounceVars,
                   plugins, acceptsClientConfig, emitted, delivered, forwarded>>
    /\ UNCHANGED <<chartVars, routerVars>>

\* node.on('close') of the ui-base node and close(node, done); what
\* RED.nodes.eachNode finds is the flow's: pages left, other ui-base nodes
\* left, themes left.  The pending timeout is not cleared.
BaseClose(pagesLeft, basesLeft, themesLeft) ==
    /\ running
    /\ peer # "absent" => basesLeft
    /\ running' = FALSE
    /\ listeners' = [c \in Sockets |->
                        IF c \in connections
                        THEN CleanupEventHandlers(listeners[c], uiWidgets)
                        ELSE listeners[c]]
    /\ IF pagesLeft
       THEN UNCHANGED <<registryVars, open>>
       ELSE /\ uiPages' = << >>
            /\ uiWidgets' = << >>
            /\ uiGroups' = << >>
            /\ IF basesLeft
               THEN UNCHANGED <<uiThemes, uiDashboards, open>>
               ELSE /\ open' = {}
                    /\ uiThemes' = IF themesLeft THEN uiThemes ELSE {}
                    /\ uiDashboards' = {}
    /\ UNCHANGED <<statestore, datastore, nodes, connections, received,
                   debounceVars, plugins, acceptsClientConfig, emitted,
                   delivered, forwarded>>
    /\ UNCHANGED <<peerVars, chartVars, routerVars>>

\* UIBaseNode(n) after a close, once the closed node's timeout has fired: a
\* new node.ui, the router listeners attached again to the sockets of
\* uiShared.connections that carry this node's id, one emission requested
BaseCreate ==
    /\ ~running
    /\ timers = 0
    /\ running' = TRUE
    /\ listeners' = [c \in Sockets |->
                        IF c \in connections /\ owner[c] = BaseId
                        THEN [listeners[c] EXCEPT !.router = @ + 1]
                        ELSE listeners[c]]
    /\ uiWidgets' = << >>
    /\ uiGroups' = << >>
    /\ uiPages' = << >>
    /\ uiDashboards' = {}
    /\ uiThemes' = {}
    /\ emitConfigRequested' = TRUE
    /\ timers' = 1
    /\ calls' = 1
    /\ fanouts' = 0
    /\ UNCHANGED <<lastCalls, open, statestore, datastore, nodes, connections,
                   received, plugins, acceptsClientConfig, emitted, delivered,
                   forwarded>>
    /\ UNCHANGED <<peerVars, chartVars, routerVars>>

\* the steps of a second ui-base node, which runs the same constructor on the
\* same uiShared: UIBaseNode(n) attaches its own onConnection to the one
\* ioServer
PeerCreate ==
    /\ peer = "absent"
    /\ peer' = "idle"
    /\ UNCHANGED <<owner, peerDelivered>>
    /\ UNCHANGED <<chartVars, registryVars, statestore, datastore, nodes,
                   connections, received, debounceVars, plugins,
                   acceptsClientConfig, emitted, delivered, forwarded, lifeVars,
                   routerVars>>

\* node.requestEmitConfig() of the second node: its own emitConfigRequested
PeerRequestEmitConfig ==
    /\ peer # "absent"
    /\ peer' = "requested"
    /\ UNCHANGED <<owner, peerDelivered>>
    /\ UNCHANGED <<chartVars, registryVars, statestore, datastore, nodes,
                   connections, received, debounceVars, plugins,
                   acceptsClientConfig, emitted, delivered, forwarded, lifeVars,
                   routerVars>>

\* the timeout of the second node: emitConfig(socket) of its own ui-config for
\* every socket of Object.values(uiShared.connections)
PeerTimerFire ==
    /\ peer = "requested"
    /\ peer' = "idle"
    /\ peerDelivered' = connections
    /\ UNCHANGED owner
    /\ UNCHANGED <<chartVars, registryVars, statestore, datastore, nodes,
                   connections, received, debounceVars, plugins,
                   acceptsClientConfig, emitted, delivered, forwarded, lifeVars,
                   routerVars>>

(***************************************************************************)
(* emit and its eligibility rule.                                          *)
(***************************************************************************)
\* what a plugin's onIsValidConnection(conn, msg) returns
HookResult(hook, conn, msg) ==
    IF hook = "allow" THEN "true"
    ELSE IF hook = "denyC2" THEN (IF conn = "c2" THEN "false" ELSE "true")
    ELSE "undefined"

\* msg._client?.socketId
ClientSocketId(msg) ==
    IF "socketId" \in DOMAIN msg THEN msg.socketId ELSE "undefined"

\* a validity check made of the hooks alone
IsValidByHooks(conn, msg) ==
    LET hooks  == {i \in DOMAIN plugins : plugins[i].onIsValidConnection # "none"}
        checks == {HookResult(plugins[i].onIsValidConnection, conn, msg) : i \in hooks}
    IN  checks = {} \/ "false" \notin checks

\* a validity check made of the socket id alone
IsValidBySocketId(conn, msg) ==
    ~Truthy(ClientSocketId(msg)) \/ ClientSocketId(msg) = conn

IsValidConnection(conn, msg) ==
    LET hooks  == {i \in DOMAIN plugins : plugins[i].onIsValidConnection # "none"}
        checks == {HookResult(plugins[i].onIsValidConnection, conn, msg) : i \in hooks}
                  \cup (IF Truthy(ClientSocketId(msg))
                        THEN {IF ClientSocketId(msg) = conn THEN "true" ELSE "false"}
                        ELSE {})
    IN  checks = {} \/ "false" \notin checks

CanSendTo(conn, wNode, msg) ==
    LET nodeAllowsConstraints ==
            IF wNode # Null THEN TypeOf(wNode) \in acceptsClientConfig ELSE TRUE
    IN  (nodeAllowsConstraints /\ IsValidConnection(conn, msg))
        \/ ~nodeAllowsConstraints

\* the messages a node hands to emit
EmitMsgs ==
    { [payload |-> "1"],
      [payload |-> "1", socketId |-> "c1"],
      [payload |-> "1", socketId |-> "c2"],
      [payload |-> "1", socketId |-> "c9"],
      [payload |-> "1", socketId |-> ""] }

\* an emit that calls conn.emit on every connection
DeliveredAll(wNode, msg) == connections

\* the connections emit(event, msg, wNode) calls conn.emit on
Delivered(wNode, msg) == {conn \in connections : CanSendTo(conn, wNode, msg)}

\* emit(event, msg, wNode)
Emit(event, msg, wNode) ==
    /\ delivered' = Delivered(wNode, msg)
    /\ emitted' = [event |-> event, msg |-> msg, wNode |-> wNode]
    /\ UNCHANGED <<registryVars, statestore, datastore, nodes, connections,
                   received, debounceVars, plugins, acceptsClientConfig,
                   forwarded>>
    /\ UNCHANGED <<peerVars, chartVars, lifeVars, routerVars>>

(***************************************************************************)
(* The input listener node.register attaches to a widget node.             *)
(***************************************************************************)
\* hasProperty(msg, prop)
HasProperty(msg, prop) == prop \in DOMAIN msg

\* msg.class || msg.ui_update?.class (uiClass stands for ui_update.class)
MsgClass(msg) ==
    IF HasProperty(msg, "class") /\ Truthy(msg.class) THEN msg.class
    ELSE IF HasProperty(msg, "uiClass") THEN msg.uiClass
    ELSE "undefined"

\* the messages a flow sends to a widget node
InputMsgs ==
    { [payload |-> "1"],
      [payload |-> "1", enabled |-> "false"],
      [payload |-> "1", visible |-> "false"],
      [payload |-> "1", class |-> "red"],
      [payload |-> "1", class |-> ""],
      [payload |-> "1", class |-> "", uiClass |-> "blue"],
      [payload |-> "1", enabled |-> "true", socketId |-> "c1"] }


\* statestore.set(base, node, msg, prop, value) called by another node of the
\* flow for a page or a group
StateStoreSet(id, prop, value) ==
    /\ statestore' = StateSet(statestore, id, prop, value)
    /\ UNCHANGED <<registryVars, datastore, nodes, connections, received,
                   debounceVars, plugins, acceptsClientConfig, emitted,
                   delivered, forwarded>>
    /\ UNCHANGED <<peerVars, chartVars, lifeVars, routerVars>>

(***************************************************************************)
(* The event router: onAction, onChange, onSend, onLoad.  A message is a   *)
(* record of string fields; what a client sends with an event is a tagged  *)
(* value.  A pipeline carries a message, null, or a thrown error.          *)
(***************************************************************************)
NullValue        == [k |-> "null"]
StringValue(v)   == [k |-> "string", v |-> v]
ObjectValue(f)   == [k |-> "object", f |-> f]

\* what the dashboard client sends as value of a change and as msg of an
\* action or a send
ChangeValues ==
    { NullValue, StringValue("v1"),
      ObjectValue([payload |-> "p2"]), ObjectValue([x |-> "x1"]) }
EventMsgs == { NullValue, ObjectValue([payload |-> "p2"]) }

Carry(msg)  == [st |-> "msg", msg |-> msg]
CarryNull   == [st |-> "null"]
CarryThrown == [st |-> "thrown"]

\* plugin.hooks?.[name]
PluginHook(plugin, name) ==
    IF name \in DOMAIN plugin THEN plugin[name] ELSE "none"

\* a hook that returns { ...msg, via: v + tag }, where v is msg?.via when that
\* is a single tag and '' otherwise
Mark(msg, tag) ==
    MapSet(msg, "via",
           (IF "via" \in DOMAIN msg /\ msg.via \in {"a", "b"} THEN msg.via ELSE "")
           \o tag)

\* msg = plugin.hooks[name](conn, id, msg)
ApplyHook(hook, plugin, carried) ==
    IF hook = "null" THEN CarryNull
    ELSE IF hook = "throw" THEN CarryThrown
    ELSE IF hook = "mark"
         THEN Carry(Mark(IF carried.st = "msg" THEN carried.msg ELSE << >>,
                         plugin.tag))
    ELSE carried

\* RED.plugins.getByType('node-red-dashboard-2').forEach(...), from plugin
\* i on; guarded is onAction's "&& msg"
RECURSIVE RunHooks(_, _, _, _)
RunHooks(name, guarded, carried, i) ==
    IF i > Len(plugins) \/ carried.st = "thrown" THEN carried
    ELSE LET hook == PluginHook(plugins[i], name)
         IN  IF hook = "none" \/ (guarded /\ carried.st = "null")
             THEN RunHooks(name, guarded, carried, i + 1)
             ELSE RunHooks(name, guarded,
                           ApplyHook(hook, plugins[i], carried), i + 1)

\* addConnectionCredentials(RED, msg, conn, n)
AddConnectionCredentials(msg, conn) == MapSet(msg, "_client", conn)

\* datastore.get(id)
DataGet(store, id) == IF id \in DOMAIN store THEN Carry(store[id]) ELSE CarryNull

\* getWidgetAndConfig(id): wNode, widgetConfig, widgetEvents
WNodeExists(id)  == id \in nodes
WidgetConfig(id) == IF id \in DOMAIN uiWidgets THEN uiWidgets[id].props ELSE << >>
WidgetEvents(id) == IF id \in DOMAIN uiWidgets THEN uiWidgets[id].hooks ELSE NoEvents

\* appendTopic(RED, widgetConfig, wNode, msg)
AppendTopic(widgetConfig, msg) ==
    IF "topic" \notin DOMAIN widgetConfig THEN Carry(msg)
    ELSE IF widgetConfig.topic = "throw" THEN CarryThrown
    ELSE Carry(MapSet(msg, "topic", widgetConfig.topic))

\* widgetEvents.beforeSend(msg), awaited
BeforeSendOf(events, msg) ==
    IF events.beforeSend = "none" THEN Carry(msg)
    ELSE IF events.beforeSend = "mark" THEN Carry(MapSet(msg, "prepared", "true"))
    ELSE CarryThrown

\* what an event did, in order
Sent(id, msg)     == [kind |-> "send", node |-> id, msg |-> msg]
Saved(id, msg)    == [kind |-> "save", node |-> id, msg |-> msg]
Reported(by)      == [kind |-> "report", by |-> by]
Handled(id)       == [kind |-> "custom", node |-> id]
Loaded(conn, id, msg) ==
    [kind |-> "emit", conn |-> conn, event |-> "widget-load:" \o id, msg |-> msg]
Escaped           == [kind |-> "escape"]

\* a fallback that prefers the node's error function to the widget's onError
ErrorHandlerNodeFirst(id) ==
    IF widgetDefs[id].error THEN "wNode"
    ELSE IF WidgetEvents(id).onError = "function" THEN "onError"
    ELSE "base"

\* the catch blocks: widgetEvents.onError, else wNode.error, else node.error
ErrorHandler(id) ==
    IF WidgetEvents(id).onError = "function" THEN "onError"
    ELSE IF widgetDefs[id].error THEN "wNode"
    ELSE "base"

\* a forward that reaches the output twice
ForwardTwice(id, msg) == << Sent(id, msg), Sent(id, msg) >>

\* wNode.send(msg)
Forward(id, msg) ==
    IF widgetDefs[id].send = "throw" THEN << Reported(ErrorHandler(id)) >>
    ELSE << Sent(id, msg) >>

\* onAction(conn, id, msg)
OnAction(conn, id, value) ==
    LET incoming == IF value.k = "null" THEN CarryNull ELSE Carry(value.f)
        hooked   == RunHooks("onAction", TRUE, incoming, 1)
    IN  IF hooked.st = "thrown" THEN << Escaped >>
        ELSE IF hooked.st = "null" THEN << >>
        ELSE IF ~WNodeExists(id) \/ WidgetEvents(id).onAction = "none" THEN << >>
        ELSE LET msg   == AddConnectionCredentials(hooked.msg, conn)
                 topic == AppendTopic(WidgetConfig(id), msg)
                 ready == IF topic.st = "thrown" THEN topic
                          ELSE BeforeSendOf(WidgetEvents(id), topic.msg)
             IN  IF ready.st = "thrown" THEN << Reported(ErrorHandler(id)) >>
                 ELSE Forward(id, ready.msg)

\* msg.payload of onChange's defaultHandler
ChangePayload(value) ==
    IF value.k = "object" /\ "payload" \in DOMAIN value.f THEN value.f.payload
    ELSE IF value.k = "object" THEN "[object]"
    ELSE IF value.k = "null" THEN "null"
    ELSE value.v

\* a change that starts from an empty message
ChangeStartEmpty(id) == CarryNull

\* the message onChange starts from
ChangeStart(id) == DataGet(datastore, id)

\* the default handlers from beforeSend on: save, then send
SaveAndSend(id, topic) ==
    LET ready == IF topic.st = "thrown" THEN topic
                 ELSE BeforeSendOf(WidgetEvents(id), topic.msg)
    IN  IF ready.st = "thrown" THEN << Reported(ErrorHandler(id)) >>
        ELSE << Saved(id, ready.msg) >> \o Forward(id, ready.msg)

\* onChange(conn, id, value)
OnChange(conn, id, value) ==
    IF ~WNodeExists(id) THEN << >>
    ELSE LET start  == ChangeStart(id)
             hooked == RunHooks("onChange", FALSE,
                                IF start.st = "null" THEN Carry(<< >>) ELSE start, 1)
         IN  IF hooked.st = "thrown" THEN << Escaped >>
             ELSE IF hooked.st = "null" THEN << >>
             ELSE LET msg == AddConnectionCredentials(hooked.msg, conn)
                  IN  IF WidgetEvents(id).onChange = "throw"
                      THEN << Reported(ErrorHandler(id)) >>
                      ELSE IF WidgetEvents(id).onChange = "custom"
                      THEN << Handled(id) >>
                      ELSE SaveAndSend(id,
                              AppendTopic(WidgetConfig(id),
                                          MapSet(msg, "payload", ChangePayload(value))))

\* a send that lays the client's message over the stored one
SendStartStored(id, value) ==
    IF value.k = "null" THEN CarryNull
    ELSE IF id \in DOMAIN datastore
         THEN Carry([k \in DOMAIN datastore[id] \cup DOMAIN value.f |->
                        IF k \in DOMAIN value.f THEN value.f[k] ELSE datastore[id][k]])
    ELSE Carry(value.f)

\* the message onSend starts from
SendStart(id, value) == IF value.k = "null" THEN CarryNull ELSE Carry(value.f)

\* onSend(conn, id, msg)
OnSend(conn, id, value) ==
    IF ~WNodeExists(id) THEN << >>
    ELSE LET hooked == RunHooks("onSend", FALSE, SendStart(id, value), 1)
         IN  IF hooked.st = "thrown" THEN << Escaped >>
             ELSE IF hooked.st = "null" THEN << >>
             ELSE LET msg == AddConnectionCredentials(hooked.msg, conn)
                  IN  IF WidgetEvents(id).onSend = "throw"
                      THEN << Reported(ErrorHandler(id)) >>
                      ELSE IF WidgetEvents(id).onSend = "custom"
                      THEN << Handled(id) >>
                      ELSE SaveAndSend(id, Carry(msg))

\* id.startsWith('ui-')
Reserved(id) == id = "ui-notification"

\* a load that answers on the first socket instead of the requesting one
OnLoadFirstSocket(conn, id, value) ==
    IF ~WNodeExists(id) /\ ~Reserved(id) THEN << >>
    ELSE LET hooked == RunHooks("onLoad", FALSE, DataGet(datastore, id), 1)
         IN  IF hooked.st = "thrown" THEN << Escaped >>
             ELSE IF hooked.st = "null" THEN << >>
             ELSE << Loaded("c1", id, hooked.msg) >>

\* onLoad(conn, id, msg): handler() is async and is not awaited, so what it
\* throws is a rejected promise nobody handles
OnLoad(conn, id, value) ==
    IF ~WNodeExists(id) /\ ~Reserved(id) THEN << >>
    ELSE LET hooked == RunHooks("onLoad", FALSE, DataGet(datastore, id), 1)
         IN  IF hooked.st = "thrown" THEN << Escaped >>
             ELSE IF hooked.st = "null" THEN << >>
             ELSE << Loaded(conn, id, hooked.msg) >>

\* what the input listener of a widget did
Broadcast(event, msg) == [kind |-> "emit", event |-> event, msg |-> msg]
Done(err)             == [kind |-> "done", err |-> err]

Stated(id, prop, value) ==
    [kind |-> "state", node |-> id, prop |-> prop, value |-> value]

\* the statestore.set calls of the input listener, in the order of the code
StateWrites(w, m) ==
    (IF HasProperty(m, "enabled")
     THEN << Stated(w, "enabled", m.enabled) >> ELSE << >>)
    \o (IF HasProperty(m, "visible")
        THEN << Stated(w, "visible", m.visible) >> ELSE << >>)
    \o (IF HasProperty(m, "class") \/ HasProperty(m, "uiClass")
        THEN << Stated(w, "class", MsgClass(m)) >> ELSE << >>)

\* the default branch of the input listener up to wNode.send: save, topic,
\* and the forward that widgetConfig.passthru allows
InputForwards(w) == widgetDefs[w].passthru # "false"
InputEffects(w, m, out) ==
    << Saved(w, m) >> \o (IF InputForwards(w) THEN << Sent(w, out) >> ELSE << >>)

\* widgetNode.on('input', ...): plugin hooks, beforeSend, the dynamic
\* properties, then the widget's own onInput or save, topic and send, and the
\* emission to the clients; widgetEvents and widgetConfig are the ones the
\* widget registered with
WidgetInput(w, msg) ==
    LET hooked == RunHooks("onInput", FALSE, Carry(msg), 1)
        ready  == IF hooked.st = "msg"
                  THEN BeforeSendOf(EventsOf(widgetDefs[w]), hooked.msg)
                  ELSE hooked
        m  == ready.msg
        s1 == IF HasProperty(m, "enabled")
              THEN StateSet(statestore, w, "enabled", m.enabled) ELSE statestore
        s2 == IF HasProperty(m, "visible")
              THEN StateSet(s1, w, "visible", m.visible) ELSE s1
        s3 == IF HasProperty(m, "class") \/ HasProperty(m, "uiClass")
              THEN StateSet(s2, w, "class", MsgClass(m)) ELSE s2
        custom == widgetDefs[w].onInput = "custom"
        topic == IF custom THEN Carry(m)
                 ELSE AppendTopic(IF widgetDefs[w].topic = "none" THEN << >>
                                  ELSE [topic |-> widgetDefs[w].topic], m)
        event == "msg-input:" \o w
    IN  /\ w \in nodes
        /\ lastEvent' = [kind |-> "input", conn |-> Null, id |-> w,
                         value |-> ObjectValue(msg)]
        /\ IF ready.st # "msg"
           THEN /\ trace' = IF hooked.st = "thrown" THEN << Escaped >>
                            ELSE IF hooked.st = "null" THEN << >>
                            ELSE << Done("error") >>
                /\ UNCHANGED <<statestore, datastore, forwarded, delivered, emitted>>
           ELSE /\ statestore' = s3
                /\ datastore' = IF custom THEN datastore ELSE MapSet(datastore, w, m)
                /\ IF topic.st = "thrown"
                   THEN /\ trace' = StateWrites(w, m)
                                    \o << Saved(w, m), Done("error") >>
                        /\ UNCHANGED <<forwarded, delivered, emitted>>
                   ELSE /\ trace' = StateWrites(w, m)
                                    \o (IF custom THEN << Handled(w) >>
                                        ELSE InputEffects(w, m, topic.msg))
                                    \o << Broadcast(event, topic.msg), Done("ok") >>
                        /\ forwarded' = IF custom \/ ~InputForwards(w)
                                        THEN forwarded
                                        ELSE [node |-> w, msg |-> topic.msg]
                        /\ delivered' = Delivered(w, topic.msg)
                        /\ emitted' = [event |-> event, msg |-> topic.msg, wNode |-> w]
        /\ UNCHANGED <<registryVars, nodes, connections, received,
                       debounceVars, plugins, acceptsClientConfig, widgetDefs,
                       pending>>
        /\ UNCHANGED <<peerVars, chartVars, lifeVars>>

\* the ids a client names in an event: a widget of the flow, and an id with
\* the reserved prefix that no node has
EventIds == {"w1", "ui-notification"}

Effects(kind, conn, id, value) ==
    IF kind = "action" THEN OnAction(conn, id, value)
    ELSE IF kind = "change" THEN OnChange(conn, id, value)
    ELSE IF kind = "send" THEN OnSend(conn, id, value)
    ELSE OnLoad(conn, id, value)

\* the last element of the effects with the given kind, as a one-element
\* sequence, or none
LastOf(effects, kind) ==
    LET hits == SelectSeq(effects, LAMBDA e : e.kind = kind)
    IN  IF hits = << >> THEN << >> ELSE << hits[Len(hits)] >>

\* a router event arrives on a socket that has the router listeners attached
RouterEvent(kind, conn, id, value) ==
    LET effects == Effects(kind, conn, id, value)
        saves   == LastOf(effects, "save")
        sends   == LastOf(effects, "send")
    IN  /\ conn \in open
        /\ listeners[conn].router > 0
        /\ trace' = effects
        /\ lastEvent' = [kind |-> kind, conn |-> conn, id |-> id, value |-> value]
        /\ datastore' = IF saves = << >> THEN datastore
                        ELSE MapSet(datastore, id, saves[1].msg)
        /\ forwarded' = IF sends = << >> THEN forwarded
                        ELSE [node |-> id, msg |-> sends[1].msg]
        /\ UNCHANGED <<registryVars, statestore, nodes, connections, received,
                       debounceVars, plugins, acceptsClientConfig, emitted,
                       delivered, widgetDefs, pending>>
        /\ UNCHANGED <<peerVars, chartVars, lifeVars>>

\* the most onChange handlers suspended at one time
MaxPending == 2

\* onChange's default handler stops at an await whose promise is not settled
\* yet: appendTopic when the widget has a topic to evaluate, beforeSend when
\* the widget has one; an await on nothing continues in the same turn
FirstAwait(id) ==
    IF "topic" \in DOMAIN WidgetConfig(id) THEN "topic"
    ELSE IF WidgetEvents(id).beforeSend # "none" THEN "beforeSend"
    ELSE "none"

\* a suspended handler ends: its effects, and the handler leaves pending
Settle(i, effects) ==
    LET h     == pending[i]
        saves == LastOf(effects, "save")
        sends == LastOf(effects, "send")
    IN  /\ pending' = RemoveAt(pending, i)
        /\ trace' = effects
        /\ lastEvent' = [kind |-> "change", conn |-> h.conn, id |-> h.id,
                         value |-> h.value]
        /\ datastore' = IF saves = << >> THEN datastore
                        ELSE MapSet(datastore, h.id, saves[1].msg)
        /\ forwarded' = IF sends = << >> THEN forwarded
                        ELSE [node |-> h.id, msg |-> sends[1].msg]
        /\ UNCHANGED <<registryVars, statestore, nodes, connections, received,
                       debounceVars, plugins, acceptsClientConfig, emitted,
                       delivered, widgetDefs>>
        /\ UNCHANGED <<peerVars, chartVars, lifeVars>>

\* a suspended handler moves on to its next await
Suspend(i, at, msg) ==
    /\ pending' = [pending EXCEPT ![i].at = at, ![i].msg = msg]
    /\ UNCHANGED <<registryVars, statestore, datastore, nodes, connections,
                   received, debounceVars, plugins, acceptsClientConfig,
                   emitted, delivered, forwarded, widgetDefs, trace, lastEvent>>
    /\ UNCHANGED <<peerVars, chartVars, lifeVars>>

\* a widget-change event arrives: onChange runs up to its first await, the
\* socket does not wait for the handler before it hands over the next event
ChangeArrives(conn, id, value) ==
    LET start  == ChangeStart(id)
        hooked == RunHooks("onChange", FALSE,
                           IF start.st = "null" THEN Carry(<< >>) ELSE start, 1)
        awaits == /\ WNodeExists(id)
                  /\ hooked.st = "msg"
                  /\ WidgetEvents(id).onChange = "none"
                  /\ FirstAwait(id) # "none"
    IN  IF ~awaits THEN RouterEvent("change", conn, id, value)
        ELSE /\ conn \in open
             /\ listeners[conn].router > 0
             /\ Len(pending) < MaxPending
             /\ pending' = Append(pending,
                    [conn |-> conn, id |-> id, value |-> value,
                     at |-> FirstAwait(id),
                     msg |-> MapSet(AddConnectionCredentials(hooked.msg, conn),
                                    "payload", ChangePayload(value)),
                     config |-> WidgetConfig(id), hooks |-> WidgetEvents(id)])
             /\ UNCHANGED <<registryVars, statestore, datastore, nodes,
                            connections, received, debounceVars, plugins,
                            acceptsClientConfig, emitted, delivered, forwarded,
                            widgetDefs, trace, lastEvent>>
             /\ UNCHANGED <<peerVars, chartVars, lifeVars>>

\* the promise of appendTopic settles for a suspended handler
TopicDecorated(i) ==
    /\ i \in 1..Len(pending)
    /\ pending[i].at = "topic"
    /\ LET h     == pending[i]
           topic == AppendTopic(h.config, h.msg)
       IN  IF topic.st = "thrown"
           THEN Settle(i, << Reported(ErrorHandler(h.id)) >>)
           ELSE IF h.hooks.beforeSend # "none"
           THEN Suspend(i, "beforeSend", topic.msg)
           ELSE Settle(i, << Saved(h.id, topic.msg) >> \o Forward(h.id, topic.msg))

\* the promise of widgetEvents.beforeSend settles for a suspended handler
BeforeSendReturns(i) ==
    /\ i \in 1..Len(pending)
    /\ pending[i].at = "beforeSend"
    /\ LET h     == pending[i]
           ready == BeforeSendOf(h.hooks, h.msg)
       IN  IF ready.st = "thrown"
           THEN Settle(i, << Reported(ErrorHandler(h.id)) >>)
           ELSE Settle(i, << Saved(h.id, ready.msg) >> \o Forward(h.id, ready.msg))

(***************************************************************************)
(* Initial states and specifications.                                      *)
(***************************************************************************)
\* the plugin lists and the acceptsClientConfig settings of a deployment
NoHooks == [onIsValidConnection |-> "none"]
PluginLists ==
    { << >>,
      << NoHooks >>,
      << [onIsValidConnection |-> "allow"] >>,
      << [onIsValidConnection |-> "undefined"] >>,
      << [onIsValidConnection |-> "denyC2"] >>,
      << [onIsValidConnection |-> "allow"], [onIsValidConnection |-> "denyC2"] >> }

DefaultAccepts == {"ui-control", "ui-notification"}
AcceptsSettings == {DefaultAccepts, {}, {"ui-control", "ui-text", "ui-template"}}

\* the state UIBaseNode(n) leaves: empty maps, one emission requested
BaseInit ==
    /\ uiWidgets = << >>
    /\ uiGroups = << >>
    /\ uiPages = << >>
    /\ uiDashboards = {}
    /\ uiThemes = {}
    /\ statestore = << >>
    /\ datastore = << >>
    /\ nodes = {}
    /\ connections = {}
    /\ received = [c \in Sockets |-> NoConfig]
    /\ emitConfigRequested = TRUE
    /\ timers = 1
    /\ calls = 1
    /\ lastCalls = 0
    /\ fanouts = 0
    /\ emitted = [event |-> "none", msg |-> [payload |-> "1"], wNode |-> Null]
    /\ delivered = {}
    /\ forwarded = [node |-> Null, msg |-> [payload |-> "1"]]
    /\ lastOp = Op("init", Null, FALSE)
    /\ open = {}
    /\ listeners = [c \in Sockets |-> NoListeners]
    /\ running = TRUE
    /\ trace = << >>
    /\ lastEvent = [kind |-> "none", conn |-> Null, id |-> Null, value |-> NullValue]
    /\ pending = << >>
    /\ owner = [c \in Sockets |-> Null]
    /\ peer = "absent"
    /\ peerDelivered = {}

ChartIdle ==
    /\ config = ChartConfig("line", "linear", 0, 0, "append", "msg")
    /\ now = 0
    /\ history = << >>
    /\ sent = [topic |-> "A", payload |-> NumPayload]
    /\ nextId = 1
    /\ appended = << >>
    /\ preWindow = << >>
    /\ lastInput = "none"
    /\ inputs = 0

Init ==
    /\ BaseInit
    /\ widgetDefs = PlainDefs
    /\ plugins = << >>
    /\ acceptsClientConfig = DefaultAccepts
    /\ ChartIdle

OrNull(S) == S \cup {Null}

\* the operation a step performed, for the specifications that record it
Did(name, widget, threw) == lastOp' = Op(name, widget, threw)

\* register and deregister calls on one group of two widgets, with sockets
\* connecting and disconnecting and the debounce timer firing
Next ==
    \/ \E page \in OrNull(PageIds), group \in OrNull({"g1"}), w \in OrNull({"w1", "w2"}) :
          Register(page, group, w) /\ UNCHANGED lastOp
    \/ \E page \in OrNull(PageIds), group \in OrNull({"g1"}), w \in OrNull({"w1", "w2"}) :
          Deregister(page, group, w) /\ UNCHANGED lastOp
    \/ TimerFire /\ UNCHANGED lastOp
    \/ \E socket \in Sockets : OnConnection(socket) /\ UNCHANGED lastOp
    \/ \E socket \in Sockets : Disconnect(socket) /\ UNCHANGED lastOp

Spec == Init /\ [][Next]_vars

\* the registry alone: every register, deregister and widget close of the flow
RegistryNext ==
    \/ \E page \in OrNull(PageIds), group \in OrNull(GroupIds), w \in OrNull(WidgetIds) :
          Register(page, group, w) /\ Did("register", w, FALSE)
    \/ \E page \in OrNull(PageIds), group \in OrNull(GroupIds), w \in OrNull(WidgetIds) :
          Deregister(page, group, w) /\ Did("deregister", w, DeregisterThrows(w))
    \/ \E w \in WidgetIds, removed \in BOOLEAN :
          WidgetClose(w, removed)
          /\ Did(IF removed THEN "remove" ELSE "close", w, DeregisterThrows(w))
    \/ TimerFire /\ Did("fire", Null, FALSE)

SpecRegistry == Init /\ [][RegistryNext]_vars

\* one widget through redeploys and input messages: the State Store
StateNext ==
    \/ \E page \in OrNull(PageIds), group \in OrNull({"g1"}) :
          Register(page, group, "w1") /\ Did("register", "w1", FALSE)
    \/ \E msg \in InputMsgs : WidgetInput("w1", msg) /\ Did("input", "w1", FALSE)
    \/ \E removed \in BOOLEAN :
          WidgetClose("w1", removed)
          /\ Did(IF removed THEN "remove" ELSE "close", "w1", DeregisterThrows("w1"))
    \/ TimerFire /\ Did("fire", Null, FALSE)

SpecState == Init /\ [][StateNext]_vars

\* plugins that define every router hook and onInput the same way
AllHooks(kind, tag) ==
    [onAction |-> kind, onChange |-> kind, onSend |-> kind, onLoad |-> kind,
     onInput |-> kind, tag |-> tag]

RouterPluginLists ==
    { << >>,
      << AllHooks("mark", "a"), AllHooks("mark", "b") >>,
      << AllHooks("null", "a"), AllHooks("mark", "b") >>,
      << AllHooks("mark", "a"), AllHooks("null", "b") >>,
      << AllHooks("throw", "a") >>,
      << AllHooks("null", "a"), AllHooks("throw", "b") >> }

\* the widget nodes of the flow: w1 is one of these, w2 is never deployed
ActionDef ==
    [PlainDef EXCEPT !.onAction = "yes", !.topic = "t1", !.beforeSend = "mark"]
RouterDefs ==
    { PlainDef,
      ActionDef,
      [ActionDef EXCEPT !.beforeSend = "throw", !.onError = "function"],
      [ActionDef EXCEPT !.topic = "throw"],
      [ActionDef EXCEPT !.send = "throw", !.error = FALSE],
      [ActionDef EXCEPT !.onChange = "throw", !.onSend = "throw"],
      [ActionDef EXCEPT !.onChange = "custom", !.onSend = "custom"],
      [ActionDef EXCEPT !.beforeSend = "reject", !.error = FALSE] }

RouterInit ==
    /\ BaseInit
    /\ \E def \in RouterDefs : widgetDefs = [PlainDefs EXCEPT !["w1"] = def]
    /\ plugins \in RouterPluginLists
    /\ plugins = << >> \/ widgetDefs["w1"] \in {PlainDef, ActionDef}
    /\ acceptsClientConfig = DefaultAccepts
    /\ ChartIdle

\* one client sending events about a widget that is deployed, registered,
\* deregistered and closed
RouterNext ==
    \/ Register("p1", "g1", "w1") /\ Did("flow", "w1", FALSE)
    \/ Deregister(Null, Null, "w1") /\ Did("flow", "w1", FALSE)
    \/ WidgetClose("w1", TRUE) /\ Did("flow", "w1", FALSE)
    \/ OnConnection("c1") /\ Did("flow", "w1", FALSE)
    \/ WidgetInput("w1", [payload |-> "1", label |-> "l1"])
          /\ Did("input", "w1", FALSE)
    \/ \E id \in EventIds, value \in EventMsgs :
          RouterEvent("action", "c1", id, value) /\ Did("action", id, FALSE)
    \/ \E id \in EventIds, value \in ChangeValues :
          RouterEvent("change", "c1", id, value) /\ Did("change", id, FALSE)
    \/ \E id \in EventIds, value \in EventMsgs :
          RouterEvent("send", "c1", id, value) /\ Did("send", id, FALSE)
    \/ \E id \in EventIds :
          RouterEvent("load", "c1", id, NullValue) /\ Did("load", id, FALSE)

SpecRouter == RouterInit /\ [][RouterNext]_vars

\* widgets whose default change handler has something to wait for
OrderDefs ==
    { PlainDef,
      [PlainDef EXCEPT !.beforeSend = "mark"],
      [PlainDef EXCEPT !.topic = "t1"],
      [PlainDef EXCEPT !.topic = "t1", !.beforeSend = "mark"],
      [PlainDef EXCEPT !.topic = "t1", !.beforeSend = "throw"] }

OrderInit ==
    /\ BaseInit
    /\ \E def \in OrderDefs : widgetDefs = [PlainDefs EXCEPT !["w1"] = def]
    /\ plugins = << >>
    /\ acceptsClientConfig = DefaultAccepts
    /\ ChartIdle

\* clients sending changes of one widget while earlier changes are still
\* being handled
OrderNext ==
    \/ Register("p1", "g1", "w1") /\ Did("flow", "w1", FALSE)
    \/ \E socket \in Sockets : OnConnection(socket) /\ Did("flow", "w1", FALSE)
    \/ \E socket \in Sockets, v \in {"v1", "v2"} :
          ChangeArrives(socket, "w1", StringValue(v)) /\ Did("change", "w1", FALSE)
    \/ \E i \in 1..MaxPending : TopicDecorated(i) /\ Did("topic", "w1", FALSE)
    \/ \E i \in 1..MaxPending : BeforeSendReturns(i) /\ Did("beforeSend", "w1", FALSE)

SpecOrder == OrderInit /\ [][OrderNext]_vars

\* a client sending changes of one widget whose handlers wait for the topic
\* or for beforeSend, while the widget is removed from the flow and the
\* ui-base node is closed
InflightNext ==
    \/ Register("p1", "g1", "w1") /\ Did("register", "w1", FALSE)
    \/ OnConnection("c1") /\ Did("connect", Null, FALSE)
    \/ \E v \in {"v1", "v2"} :
          ChangeArrives("c1", "w1", StringValue(v)) /\ Did("change", "w1", FALSE)
    \/ \E i \in 1..MaxPending : TopicDecorated(i) /\ Did("topic", "w1", FALSE)
    \/ \E i \in 1..MaxPending : BeforeSendReturns(i) /\ Did("beforeSend", "w1", FALSE)
    \/ WidgetClose("w1", TRUE) /\ Did("remove", "w1", DeregisterThrows("w1"))
    \/ BaseClose(FALSE, FALSE, FALSE) /\ Did("shutdown", Null, FALSE)

SpecInflight == OrderInit /\ [][InflightNext]_vars

\* two ui-base nodes on the one ioServer, each with its own debounce timeout,
\* while sockets connect and disconnect
PeerNext ==
    \/ PeerCreate /\ Did("peercreate", Null, FALSE)
    \/ Register("p1", "g1", "w1") /\ Did("register", "w1", FALSE)
    \/ PeerRequestEmitConfig /\ Did("peerrequest", Null, FALSE)
    \/ TimerFire /\ Did("fire", Null, FALSE)
    \/ PeerTimerFire /\ Did("peerfire", Null, FALSE)
    \/ \E socket \in Sockets : OnConnection(socket) /\ Did("connect", Null, FALSE)
    \/ \E socket \in Sockets : Disconnect(socket) /\ Did("disconnect", Null, FALSE)

SpecPeer == Init /\ [][PeerNext]_vars

\* requests for an emission and timeouts, some of whose emissions throw
DebounceNext ==
    \/ \E w \in {"w1", "w2"} :
          Register("p1", "g1", w) /\ Did("register", w, FALSE)
    \/ \E w \in {"w1", "w2"} :
          Deregister(Null, Null, w) /\ Did("deregister", w, DeregisterThrows(w))
    \/ TimerFire /\ Did("fire", Null, FALSE)
    \/ \E reached \in SUBSET Sockets :
          TimerFireThrows(reached) /\ Did("fire", Null, TRUE)
    \/ \E socket \in Sockets : OnConnection(socket) /\ Did("connect", Null, FALSE)
    \/ \E socket \in Sockets : Disconnect(socket) /\ Did("disconnect", Null, FALSE)

SpecDebounce == Init /\ [][DebounceNext]_vars

\* widget nodes that register, register once more and close
RegisterNext ==
    \/ \E w \in {"w1", "w2"} :
          Register("p1", "g1", w) /\ Did("register", w, FALSE)
    \/ \E w \in {"w1", "w2"} :
          RegisterAgain("p1", "g1", w) /\ Did("register-again", w, FALSE)
    \/ \E w \in {"w1", "w2"}, removed \in BOOLEAN :
          WidgetClose(w, removed) /\ Did("close", w, DeregisterThrows(w))
    \/ TimerFire /\ Did("fire", Null, FALSE)

SpecRegister == Init /\ [][RegisterNext]_vars

\* a widget with custom socket events (w3) and one without (w1) register and
\* are removed while sockets connect and disconnect
SocketNext ==
    \/ \E w \in {"w1", "w3"} :
          Register("p1", GroupOf(w), w) /\ Did("register", w, FALSE)
    \/ \E socket \in Sockets : OnConnection(socket) /\ Did("connect", Null, FALSE)
    \/ \E socket \in Sockets : Disconnect(socket) /\ Did("disconnect", Null, FALSE)
    \/ \E w \in {"w1", "w3"} :
          Deregister(Null, Null, w) /\ Did("deregister", w, DeregisterThrows(w))
    \/ \E removed \in BOOLEAN :
          WidgetClose("w3", removed) /\ Did("close", "w3", DeregisterThrows("w3"))
    \/ TimerFire /\ Did("fire", Null, FALSE)

SpecSocket == Init /\ [][SocketNext]_vars

\* emissions of the ui-config to two sockets while the State Store and the
\* registry change
MergeNext ==
    \/ Register("p1", "g1", "w1") /\ Did("flow", Null, FALSE)
    \/ WidgetInput("w1", [payload |-> "1", enabled |-> "false"])
          /\ Did("flow", Null, FALSE)
    \/ \E id \in {"p1", "g1"} :
          StateStoreSet(id, "visible", "false") /\ Did("flow", Null, FALSE)
    \/ StateStoreSet("p1", "visible", "true") /\ Did("flow", Null, FALSE)
    \/ TimerFire /\ Did("fire", Null, FALSE)
    \/ \E socket \in Sockets : OnConnection(socket) /\ Did("connect", Null, FALSE)

SpecMerge == Init /\ [][MergeNext]_vars

\* the same with the timeout of setTimeout running once it is due
SpecMergeFair ==
    SpecMerge /\ WF_vars(TimerFire /\ Did("fire", Null, FALSE))

\* two clients loading the stored message of a widget that receives input
\* and is closed by deploys
LoadInit ==
    /\ BaseInit
    /\ widgetDefs = PlainDefs
    /\ plugins \in RouterPluginLists
    /\ acceptsClientConfig = DefaultAccepts
    /\ ChartIdle

LoadNext ==
    \/ Register("p1", "g1", "w1") /\ Did("flow", "w1", FALSE)
    \/ \E removed \in BOOLEAN :
          WidgetClose("w1", removed) /\ Did("flow", "w1", FALSE)
    \/ \E socket \in Sockets : OnConnection(socket) /\ Did("flow", Null, FALSE)
    \/ \E socket \in Sockets : Disconnect(socket) /\ Did("flow", Null, FALSE)
    \/ \E msg \in {[payload |-> "1"], [payload |-> "2", label |-> "l1"]} :
          WidgetInput("w1", msg) /\ Did("input", "w1", FALSE)
    \/ \E socket \in Sockets, id \in EventIds :
          RouterEvent("load", socket, id, NullValue) /\ Did("load", id, FALSE)

SpecLoad == LoadInit /\ [][LoadNext]_vars

\* sockets coming and going while the ui-base node is closed and created
\* again by deploys
LifeNext ==
    \/ \E socket \in Sockets : OnConnection(socket) /\ Did("connect", Null, FALSE)
    \/ \E socket \in Sockets : Disconnect(socket) /\ Did("disconnect", Null, FALSE)
    \/ \E pagesLeft, basesLeft, themesLeft \in BOOLEAN :
          BaseClose(pagesLeft, basesLeft, themesLeft) /\ Did("baseclose", Null, FALSE)
    \/ BaseCreate /\ Did("basecreate", Null, FALSE)
    \/ \E page \in PageIds : Register(page, "g1", "w1") /\ Did("register", "w1", FALSE)
    \/ TimerFire /\ Did("fire", Null, FALSE)
    \/ \E msg \in EmitMsgs : Emit("msg-input", msg, Null) /\ Did("emit", Null, FALSE)

SpecLife == Init /\ [][LifeNext]_vars

EmitInit ==
    /\ BaseInit
    /\ widgetDefs = PlainDefs
    /\ plugins \in PluginLists
    /\ acceptsClientConfig \in AcceptsSettings
    /\ ChartIdle

EmitNext ==
    \/ \E socket \in Sockets : OnConnection(socket) /\ Did("connect", Null, FALSE)
    \/ \E socket \in Sockets : Disconnect(socket) /\ Did("disconnect", Null, FALSE)
    \/ \E msg \in EmitMsgs, wNode \in OrNull(WidgetIds) :
          Emit("msg-input", msg, wNode) /\ Did("emit", wNode, FALSE)

SpecEmit == EmitInit /\ [][EmitNext]_vars

ChartInit ==
    /\ config \in Configs
    /\ now = 0
    /\ history = << >>
    /\ sent = [topic |-> "A", payload |-> NumPayload]
    /\ nextId = 1
    /\ appended = << >>
    /\ preWindow = << >>
    /\ lastInput = "none"
    /\ inputs = 0
    /\ BaseInit
    /\ widgetDefs = PlainDefs
    /\ plugins = << >>
    /\ acceptsClientConfig = DefaultAccepts

ChartNext == \E delay \in Delays : \E msg \in ChartMsgs(now + delay) : ChartInput(msg, delay)

SpecChart == ChartInit /\ [][ChartNext]_vars

\* charts whose action is 'replace', with and without each of the windows
ReplaceConfigs ==
    { ChartConfig("line", "linear",   0, 0, "replace", "msg"),
      ChartConfig("line", "linear",   1, 0, "replace", "msg"),
      ChartConfig("line", "time",     0, 1, "replace", "property"),
      ChartConfig("bar",  "category", 0, 0, "replace", "property") }

\* the input messages of ChartMsgs and an array whose elements share a category
ReplaceMsgs(t) ==
    ChartMsgs(t) \cup
    { [topic |-> "B", payload |-> ArrPayload(
            << ObjPayload(NumX(t), [k |-> "string", s |-> "x"]),
               ObjPayload(StrX(t), [k |-> "string", s |-> "x"]) >>)] }

ReplaceInit ==
    /\ config \in ReplaceConfigs
    /\ now = 0
    /\ history = << >>
    /\ sent = [topic |-> "A", payload |-> NumPayload]
    /\ nextId = 1
    /\ appended = << >>
    /\ preWindow = << >>
    /\ lastInput = "none"
    /\ inputs = 0
    /\ BaseInit
    /\ widgetDefs = PlainDefs
    /\ plugins = << >>
    /\ acceptsClientConfig = DefaultAccepts

ReplaceNext ==
    \E delay \in Delays : \E msg \in ReplaceMsgs(now + delay) : ChartInput(msg, delay)

SpecReplace == ReplaceInit /\ [][ReplaceNext]_vars

\* line charts on a time axis with a time window, one for each way of naming
\* the series, without and with a count window
SeriesConfigs ==
    { ChartConfig("line", "time", points, 1, "append", categoryType) :
         points \in {0, MaxPoints}, categoryType \in {"msg", "property", "json"} }

\* payloads whose x is left to the chart, with and without values for the
\* series of the list, one payload with an old x, and an array
SeriesMsgs ==
    { [topic |-> "A", payload |-> NumPayload],
      [topic |-> "A", payload |-> ObjPayload(Undefined, [k |-> "string", s |-> "x"])],
      [topic |-> "B", payload |-> ObjPayload(NumX(0), [k |-> "string", s |-> "z"])],
      [topic |-> "A", payload |-> KeyedPayload(Undefined, {"y1", "y2"})],
      [topic |-> "B", payload |-> KeyedPayload(Undefined, {"y1"})],
      [topic |-> "A", payload |-> KeyedPayload(Undefined, {})],
      [topic |-> "B", payload |-> ArrPayload(
            << KeyedPayload(Undefined, {"y1", "y2"}),
               ObjPayload(Undefined, [k |-> "string", s |-> "x"]) >>)] }

SeriesInit ==
    /\ config \in SeriesConfigs
    /\ now = 0
    /\ history = << >>
    /\ sent = [topic |-> "A", payload |-> NumPayload]
    /\ nextId = 1
    /\ appended = << >>
    /\ preWindow = << >>
    /\ lastInput = "none"
    /\ inputs = 0
    /\ BaseInit
    /\ widgetDefs = PlainDefs
    /\ plugins = << >>
    /\ acceptsClientConfig = DefaultAccepts

SeriesNext ==
    \E delay \in Delays : \E msg \in SeriesMsgs : ChartInput(msg, delay)

SpecSeries == SeriesInit /\ [][SeriesNext]_vars

\* plugins with an onInput hook and a connection check
InputPlugin(hook, check) ==
    [onInput |-> hook, onIsValidConnection |-> check, tag |-> "a"]
InputPluginLists ==
    { << >>,
      << InputPlugin("mark", "none") >>,
      << InputPlugin("none", "denyC2") >>,
      << InputPlugin("null", "none") >> }

\* the widget nodes that receive the input: with and without passthru, with
\* a topic, with an onInput of their own, and with steps that fail
InputDefs ==
    { PlainDef,
      [PlainDef EXCEPT !.passthru = "true"],
      [PlainDef EXCEPT !.passthru = "false", !.topic = "t1", !.beforeSend = "mark"],
      [PlainDef EXCEPT !.onInput = "custom"],
      [PlainDef EXCEPT !.topic = "throw"] }

\* the messages of the flow: without and with properties for the State Store,
\* and one addressed to a client
InputPathMsgs ==
    { [payload |-> "1"],
      [payload |-> "1", visible |-> "false"],
      [payload |-> "1", class |-> "", uiClass |-> "blue"],
      [payload |-> "1", enabled |-> "false", socketId |-> "c1"] }

InputInit ==
    /\ BaseInit
    /\ \E def \in InputDefs : widgetDefs = [PlainDefs EXCEPT !["w1"] = def]
    /\ plugins \in InputPluginLists
    /\ acceptsClientConfig \in {DefaultAccepts, {"ui-control", "ui-text"}}
    /\ ChartIdle

\* a flow sending messages to one widget node while clients connect
InputNext ==
    \/ Register("p1", "g1", "w1") /\ Did("register", "w1", FALSE)
    \/ \E socket \in Sockets : OnConnection(socket) /\ Did("connect", Null, FALSE)
    \/ \E msg \in InputPathMsgs : WidgetInput("w1", msg) /\ Did("input", "w1", FALSE)

SpecInput == InputInit /\ [][InputNext]_vars

(***************************************************************************)
(* Properties of the broadcast coordinator.                                *)
(***************************************************************************)
\* C1: however many times requestEmitConfig is called before the timer
\* fires, one timeout waits, and once it has fired it has made one ui-config
\* fan-out for all the calls it had collected
C1_OneEmissionPerBurst ==
    /\ timers <= 1
    /\ (calls >= 1) <=> (timers = 1)
    /\ emitConfigRequested <=> (timers = 1)
    /\ (calls = 0) => (lastCalls >= 1 /\ fanouts = 1)

\* a timer that fired for two or more calls, with one fan-out to a connection
C1_Witness ==
    /\ calls = 0
    /\ lastCalls >= 2
    /\ fanouts = 1
    /\ connections # {}

\* { ...object, ...State Store entry of id }
Overlay(object, id) ==
    IF id \in DOMAIN statestore
    THEN [key \in DOMAIN object \cup DOMAIN statestore[id] |->
            IF key \in DOMAIN statestore[id] THEN statestore[id][key]
            ELSE object[key]]
    ELSE object

\* the registry as it stands, every entry overlaid with its State Store entry
Snapshot ==
    [dashboards |-> uiDashboards,
     pages      |-> [p \in DOMAIN uiPages |-> Overlay(uiPages[p], p)],
     themes     |-> uiThemes,
     groups     |-> [g \in DOMAIN uiGroups |-> Overlay(uiGroups[g], g)],
     widgets    |-> [w \in DOMAIN uiWidgets |->
                       [type  |-> uiWidgets[w].type,
                        props |-> Overlay(uiWidgets[w].props, w),
                        state |-> Overlay(uiWidgets[w].state, w)]]]

\* C2: after any register and deregister calls, when the timer has fired and
\* no emission is pending, the ui-config every live connection received last
\* is the registry's snapshot merged with the State Store
C2_LastConfigIsSnapshot ==
    ~emitConfigRequested => \A c \in connections : received[c] = Snapshot

\* no emission pending after a burst of calls that registered w1 and w2 and
\* deregistered w1, with both sockets connected
C2_Witness ==
    /\ ~emitConfigRequested
    /\ lastCalls >= 2
    /\ connections = Sockets
    /\ "w1" \in DOMAIN statestore
    /\ DOMAIN uiWidgets = {"w2"}
    /\ received["c2"] = Snapshot

(***************************************************************************)
(* Properties of emit.                                                     *)
(***************************************************************************)
\* the origin of the last emit is none, or a node whose type accepts client
\* constraints
OriginAccepted ==
    emitted.wNode = Null \/ TypeOf(emitted.wNode) \in acceptsClientConfig

\* the last message declares a target connection id (a non-empty
\* msg._client.socketId)
Targeted == "socketId" \in DOMAIN emitted.msg /\ emitted.msg.socketId # ""

\* C3 as stated: for every origin widget, a message that declares a target
\* connection id is delivered to no connection with another id
C3_TargetedForEveryOrigin ==
    (lastOp.op = "emit" /\ Targeted)
        => \A conn \in delivered : conn = emitted.msg.socketId

\* C3: a message that declares a target connection id, emitted with no origin
\* or by a node whose type is in acceptsClientConfig, is delivered to no
\* connection with another id
C3_TargetedDelivery ==
    (lastOp.op = "emit" /\ OriginAccepted /\ Targeted)
        => \A conn \in delivered : conn = emitted.msg.socketId

\* a ui-control emits a message for c1 while c1 and c2 are connected, and c1
\* alone receives it
C3_Witness ==
    /\ lastOp.op = "emit"
    /\ emitted.wNode = "w2"
    /\ OriginAccepted
    /\ emitted.msg = [payload |-> "1", socketId |-> "c1"]
    /\ connections = {"c1", "c2"}
    /\ delivered = {"c1"}

\* a registered onIsValidConnection hook returns false for (conn, last message)
HookObjects(conn) ==
    \E i \in DOMAIN plugins :
        /\ plugins[i].onIsValidConnection # "none"
        /\ HookResult(plugins[i].onIsValidConnection, conn, emitted.msg) = "false"

\* a message without msg._client.socketId reaches every connection no hook
\* objects to
UntargetedReachesAll ==
    "socketId" \notin DOMAIN emitted.msg
        => \A conn \in connections : ~HookObjects(conn) => conn \in delivered

\* C4 as stated: the untargeted message reaches every connection, and a
\* connection a hook objects to receives nothing, whatever the origin
C4_HookVetoForEveryOrigin ==
    lastOp.op = "emit"
        => /\ UntargetedReachesAll
           /\ \A conn \in connections : HookObjects(conn) => conn \notin delivered

\* C4: the untargeted message reaches every connection no hook objects to;
\* a connection a hook objects to receives nothing when the message has no
\* origin or its origin's type is in acceptsClientConfig
C4_Eligibility ==
    lastOp.op = "emit"
        => /\ UntargetedReachesAll
           /\ OriginAccepted
                => \A conn \in connections : HookObjects(conn) => conn \notin delivered

\* an untargeted message without origin, a hook objecting to c2: c1 alone
\* receives it
C4_Witness ==
    /\ lastOp.op = "emit"
    /\ emitted.wNode = Null
    /\ "socketId" \notin DOMAIN emitted.msg
    /\ connections = {"c1", "c2"}
    /\ HookObjects("c2")
    /\ ~HookObjects("c1")
    /\ delivered = {"c1"}

(***************************************************************************)
(* Properties of the registry.                                             *)
(***************************************************************************)
DefaultState(prop) == IF prop = "class" THEN "" ELSE "true"

\* C5: a register of a widget writes enabled=true, visible=true, class="" where
\* the State Store reads undefined for the widget, and leaves every stored
\* value as it is
C5_SeedOnlyAbsent ==
    [][ (lastOp'.op = "register" /\ lastOp'.widget # Null)
          => \A prop \in StateProps :
                StateGetProperty(statestore', lastOp'.widget, prop)
                  = IF StateGetProperty(statestore, lastOp'.widget, prop) = "undefined"
                    THEN DefaultState(prop)
                    ELSE StateGetProperty(statestore, lastOp'.widget, prop) ]_vars

\* a register of w1 over stored values that are not the defaults
C5_Witness ==
    /\ lastOp.op = "register"
    /\ lastOp.widget = "w1"
    /\ StateGetProperty(statestore, "w1", "enabled") = "false"
    /\ StateGetProperty(statestore, "w1", "visible") = "false"
    /\ StateGetProperty(statestore, "w1", "class") = "red"

\* the step is a deregister call, made directly or by a widget's close listener
DeregisterStep == lastOp'.op \in {"deregister", "close", "remove"}

\* C6: a deregister that removes the last widget of a group removes the
\* group, one that removes the last group of a page removes the page, and no
\* deregister removes a dashboard or a theme
C6_CascadingRemoval ==
    [][ DeregisterStep
          => /\ \A w \in DOMAIN uiWidgets \ DOMAIN uiWidgets' :
                   LET g == uiWidgets[w].props.group
                   IN  (/\ g \in DOMAIN uiGroups
                        /\ ~\E v \in DOMAIN uiWidgets' : uiWidgets'[v].props.group = g)
                          => g \notin DOMAIN uiGroups'
             /\ \A g \in DOMAIN uiGroups \ DOMAIN uiGroups' :
                   LET p == uiGroups[g].page
                   IN  (/\ p \in DOMAIN uiPages
                        /\ ~\E h \in DOMAIN uiGroups' : uiGroups'[h].page = p)
                          => p \notin DOMAIN uiPages'
             /\ uiDashboards' = uiDashboards
             /\ uiThemes' = uiThemes ]_vars

\* C7: after a deregister, a group that still owns a registered widget and a
\* page that still owns a registered group are in the registry
C7_RemovesOnlyEmpty ==
    [][ DeregisterStep
          => /\ \A g \in DOMAIN uiGroups :
                   (\E v \in DOMAIN uiWidgets' : uiWidgets'[v].props.group = g)
                     => g \in DOMAIN uiGroups'
             /\ \A p \in DOMAIN uiPages :
                   (\E h \in DOMAIN uiGroups' : uiGroups'[h].page = p)
                     => p \in DOMAIN uiPages' ]_vars

(***************************************************************************)
(* Properties of the chart history.                                        *)
(***************************************************************************)
BySeries(s, label) == SelectSeq(s, LAMBDA m : m.topic = label)

\* the instant an x value denotes, in epoch milliseconds
Instant(x) == IF x.k = "string" THEN x.sec * 1000 + x.ms ELSE x.v
HasInstant(x) == x.k \in {"number", "string"}

\* C8: with a maximum point count N on a non-categorical axis and no time
\* window, the history holds for every series label exactly the min(N, k)
\* most recently appended messages of that label, whatever the other labels
\* received.
C8_CountWindowPerSeries ==
    ( /\ config.removeOlderPoints > 0
      /\ config.xAxisType # "category"
      /\ ~(config.xAxisType = "time" /\ config.removeOlder > 0) )
    => \A label \in Topics :
          BySeries(history, label)
            = LastN(BySeries(appended, label), config.removeOlderPoints)

C8_Witness ==
    /\ config.removeOlderPoints > 0
    /\ config.xAxisType # "category"
    /\ ~(config.xAxisType = "time" /\ config.removeOlder > 0)
    /\ Len(BySeries(appended, "A")) > config.removeOlderPoints
    /\ Len(BySeries(appended, "B")) >= 1
    /\ Len(BySeries(history, "A")) = config.removeOlderPoints
    /\ Len(BySeries(history, "B")) >= 1

\* C9: on a categorical axis, after an input with a non-empty payload the
\* history holds exactly one message per category appended since the last
\* clear, and it is the most recently appended message of that category.
C9_LatestPerCategory ==
    (config.xAxisType = "category" /\ lastInput = "data")
    => LET keys == {CategoryKey(appended[i]) : i \in DOMAIN appended}
           Latest(key) == appended[SetMax({i \in DOMAIN appended :
                                              CategoryKey(appended[i]) = key})]
       IN  /\ Len(history) = Cardinality(keys)
           /\ \A key \in keys : \E i \in DOMAIN history : history[i] = Latest(key)

C9_Witness ==
    /\ config.xAxisType = "category"
    /\ lastInput = "data"
    /\ Len(appended) = 3
    /\ CategoryKey(appended[1]) = CategoryKey(appended[3])
    /\ CategoryKey(appended[1]) # CategoryKey(appended[2])
    /\ history = << appended[2], appended[3] >>

\* C10: on a time axis with a retention duration D, after an input with a
\* non-empty payload the history holds no message whose x is older than
\* now - D, and every message the time window was given whose x is newer
\* than now - D is still there; a date string counts as the instant it
\* denotes.
C10_TimeWindow ==
    (config.xAxisType = "time" /\ config.removeOlder > 0 /\ lastInput = "data")
    => LET cutoff == now - config.removeOlder * config.removeOlderUnit * 1000
       IN  /\ \A i \in DOMAIN history :
                 HasInstant(history[i]._datapoint.x)
                    => ~(Instant(history[i]._datapoint.x) < cutoff)
           /\ \A i \in DOMAIN preWindow :
                 ( HasInstant(preWindow[i]._datapoint.x)
                   /\ Instant(preWindow[i]._datapoint.x) > cutoff )
                    => \E j \in DOMAIN history : history[j] = preWindow[i]

C10_Witness ==
    /\ config.xAxisType = "time" /\ config.removeOlder > 0 /\ lastInput = "data"
    /\ \E i \in DOMAIN preWindow :
          /\ Instant(preWindow[i]._datapoint.x)
                < now - config.removeOlder * config.removeOlderUnit * 1000
          /\ \A j \in DOMAIN history : history[j] # preWindow[i]
    /\ \E j \in DOMAIN history : history[j]._datapoint.x.k = "string"
    /\ \E j \in DOMAIN history : history[j]._datapoint.x.k = "number"

\* C11: after a chart input whose payload is an empty array the history has
\* no entries, whatever it held before and whatever the configuration
C11_EmptyArrayClears ==
    (inputs > 0 /\ sent.payload.k = "array" /\ Len(sent.payload.items) = 0)
        => history = << >>

\* the second input is an empty array, after a first input that left the
\* history non-empty
C11_Witness ==
    /\ inputs = 2
    /\ sent.payload.k = "array"
    /\ Len(sent.payload.items) = 0
    /\ ~(config.xAxisType = "time" /\ config.removeOlder > 0)
    /\ preWindow # << >>
    /\ history = << >>

RECURSIVE IsSubsequence(_, _)
IsSubsequence(s, t) ==
    IF s = << >> THEN TRUE
    ELSE IF t = << >> THEN FALSE
    ELSE IF Head(s) = Head(t) THEN IsSubsequence(Tail(s), Tail(t))
    ELSE IsSubsequence(s, Tail(t))

\* C12: after a chart input the history is an order-preserving subsequence
\* of the history before it followed by the entries the input appended
C12_EvictionKeepsOrder ==
    [][ inputs' = inputs + 1
          => LET n     == nextId' - nextId
                 fresh == SubSeq(appended', Len(appended') - n + 1, Len(appended'))
             IN  IsSubsequence(history', history \o fresh) ]_vars

\* an eviction took an entry from between two entries that stay
C12_Witness ==
    /\ lastInput = "data"
    /\ config.action = "append"
    /\ \E i, j, k \in DOMAIN appended :
          /\ i < j /\ j < k
          /\ \E a, b \in DOMAIN history :
                a < b /\ history[a] = appended[i] /\ history[b] = appended[k]
          /\ \A a \in DOMAIN history : history[a] # appended[j]

(***************************************************************************)
(* Properties of the connection lifecycle.                                 *)
(***************************************************************************)
\* C13: a socket whose transport has closed is not in uiShared.connections
\* and has no router listeners attached
C13_DisconnectedIsGone ==
    \A c \in Sockets :
        c \notin open => (c \notin connections /\ listeners[c].router = 0)

(***************************************************************************)
(* Properties of the event router.                                         *)
(***************************************************************************)
\* the widget is in node.ui.widgets
Registered(id) == id \in DOMAIN uiWidgets

\* nothing the widget brings along fails: topic decoration, beforeSend, send
NothingFails(id) ==
    /\ ~("topic" \in DOMAIN uiWidgets[id].props /\ uiWidgets[id].props.topic = "throw")
    /\ uiWidgets[id].hooks.beforeSend \notin {"throw", "reject"}
    /\ widgetDefs[id].send = "ok"

\* the client's message after the onAction hooks, when no hook nulled it
ActionPassed(e) ==
    /\ e.value.k = "object"
    /\ RunHooks("onAction", TRUE, Carry(e.value.f), 1).st = "msg"

\* a message with the connection's credentials, the widget's topic and the
\* widget's beforeSend applied, in that order
Decorated(id, conn, msg) ==
    LET c == MapSet(msg, "_client", conn)
        t == IF "topic" \in DOMAIN uiWidgets[id].props
             THEN MapSet(c, "topic", uiWidgets[id].props.topic) ELSE c
    IN  IF uiWidgets[id].hooks.beforeSend = "mark"
        THEN MapSet(t, "prepared", "true") ELSE t

\* the step is an action event that forwards the hooked, decorated message
\* once and leaves both stores alone
ActionForwardsOnce(e) ==
    LET msg == Decorated(e.id, e.conn,
                         RunHooks("onAction", TRUE, Carry(e.value.f), 1).msg)
    IN  /\ trace' = << Sent(e.id, msg) >>
        /\ forwarded' = [node |-> e.id, msg |-> msg]
        /\ datastore' = datastore
        /\ statestore' = statestore

HookName(op) ==
    IF op = "action" THEN "onAction"
    ELSE IF op = "change" THEN "onChange"
    ELSE IF op = "send" THEN "onSend"
    ELSE IF op = "load" THEN "onLoad"
    ELSE "onInput"

\* some plugin's hook of that name returns a falsy message, and the hooks
\* registered before it return normally
Nulls(name) ==
    \E i \in DOMAIN plugins :
        /\ PluginHook(plugins[i], name) = "null"
        /\ \A j \in 1..(i - 1) : PluginHook(plugins[j], name) # "throw"

\* C15: in the action, change, send, load and widget input pipelines, once a
\* plugin hook has returned a falsy message nothing is forwarded, stored or
\* emitted and no error arises, whatever the hooks registered after it do
C15_NullShortCircuits ==
    [][ (lastOp'.op \in {"action", "change", "send", "load", "input"}
         /\ Nulls(HookName(lastOp'.op)))
        => /\ trace' = << >>
           /\ UNCHANGED <<datastore, statestore, forwarded, emitted, delivered>> ]_vars

\* no plugin hook of that name throws
NoHookThrows(name) ==
    \A i \in DOMAIN plugins : PluginHook(plugins[i], name) # "throw"

\* C16: an action, change, send or load event whose widget id is not in the
\* widget registry does nothing at all: nothing forwarded, stored or emitted,
\* no error (plugin hooks that throw set aside); only a load for an id with
\* the reserved prefix is exempt
C16_MissingWidgetIsNoOp ==
    [][ (/\ lastOp'.op \in {"action", "change", "send", "load"}
         /\ NoHookThrows(HookName(lastOp'.op))
         /\ ~Registered(lastEvent'.id)
         /\ ~(lastOp'.op = "load" /\ Reserved(lastEvent'.id)))
        => /\ trace' = << >>
           /\ UNCHANGED <<datastore, statestore, forwarded, emitted, delivered>> ]_vars

\* the hooks of the event's pipeline hand a message on to the handler
HooksPass(e) ==
    RunHooks(HookName(e.kind), e.kind = "action",
             IF e.kind # "change" /\ e.value.k = "null" THEN CarryNull
             ELSE Carry(<< >>), 1).st = "msg"

\* the steps of the widget that an event of that kind runs, and whether one
\* of them fails: topic decoration, beforeSend, the widget's handler, the
\* forward
TopicFails(id)      == "topic" \in DOMAIN WidgetConfig(id) /\ WidgetConfig(id).topic = "throw"
BeforeSendFails(id) == WidgetEvents(id).beforeSend \in {"throw", "reject"}
ForwardFails(id)    == widgetDefs[id].send = "throw"
Fails(e) ==
    IF e.kind = "action"
    THEN /\ WidgetEvents(e.id).onAction # "none"
         /\ TopicFails(e.id) \/ BeforeSendFails(e.id) \/ ForwardFails(e.id)
    ELSE IF e.kind = "change"
    THEN \/ WidgetEvents(e.id).onChange = "throw"
         \/ /\ WidgetEvents(e.id).onChange = "none"
            /\ TopicFails(e.id) \/ BeforeSendFails(e.id) \/ ForwardFails(e.id)
    ELSE \/ WidgetEvents(e.id).onSend = "throw"
         \/ /\ WidgetEvents(e.id).onSend = "none"
            /\ BeforeSendFails(e.id) \/ ForwardFails(e.id)

\* the reporter the claim names for a widget
Reporter(id) ==
    IF Registered(id) /\ uiWidgets[id].hooks.onError = "function" THEN "onError"
    ELSE IF widgetDefs[id].error THEN "wNode"
    ELSE "base"

\* C17: when topic decoration, beforeSend, the handler or the forward fails
\* during an action, change or send, the failure is reported exactly once, to
\* the widget's onError if that is a function, else to wNode.error if the node
\* has one, else to the coordinator's error function; nothing escapes the
\* handler and nothing is forwarded
C17_ThreeTierFallback ==
    (/\ lastOp.op \in {"action", "change", "send"}
     /\ lastEvent.id \in nodes
     /\ HooksPass(lastEvent)
     /\ Fails(lastEvent))
    => /\ SelectSeq(trace, LAMBDA x : x.kind = "report")
             = << Reported(Reporter(lastEvent.id)) >>
       /\ \A i \in DOMAIN trace : trace[i].kind \notin {"escape", "send"}

C17_Witness ==
    /\ lastOp.op = "change"
    /\ lastEvent.id \in nodes
    /\ HooksPass(lastEvent)
    /\ Fails(lastEvent)
    /\ ForwardFails(lastEvent.id)
    /\ Len(trace) = 2
    /\ trace[1].kind = "save"
    /\ trace[2] = Reported("base")

\* C18: no action, change, send or load event ends in an exception or a
\* rejected promise that nobody handles, whatever the plugin hooks and the
\* load handler do and whether or not the id has a node
C18_NothingEscapes ==
    lastOp.op \in {"action", "change", "send", "load"}
    => \A i \in DOMAIN trace : trace[i].kind # "escape"

\* the event reaches the widget's default handler and nothing in it fails
DefaultHandled(e) ==
    /\ Registered(e.id)
    /\ e.id \in nodes
    /\ HooksPass(e)
    /\ ~Fails(e)
    /\ (IF e.kind = "change" THEN uiWidgets[e.id].hooks.onChange
        ELSE uiWidgets[e.id].hooks.onSend) = "none"

\* the payload the claim gives a change: value.payload of a non-null object
\* that has one, the value itself otherwise
PayloadOf(value) ==
    IF value.k = "object" /\ "payload" \in DOMAIN value.f THEN value.f.payload
    ELSE IF value.k = "string" THEN value.v
    ELSE IF value.k = "null" THEN "null"
    ELSE "[object]"

\* the message a change builds: the last stored message (or {}) through the
\* onChange hooks, with the payload set, then decorated
ChangeMessage(e) ==
    LET start == IF e.id \in DOMAIN datastore THEN datastore[e.id] ELSE << >>
        hooked == RunHooks("onChange", FALSE, Carry(start), 1).msg
    IN  Decorated(e.id, e.conn, MapSet(hooked, "payload", PayloadOf(e.value)))

\* C19: the default change handler builds its message from the last stored
\* message of the widget (or {}), sets payload to value.payload when value is
\* a non-null object with a payload property and to value otherwise, writes
\* the message to the History Store and then forwards the same message
C19_ChangeDefaultHandler ==
    [][ (lastOp'.op = "change" /\ DefaultHandled(lastEvent'))
        => LET msg == ChangeMessage(lastEvent')
               id  == lastEvent'.id
           IN  /\ trace' = << Saved(id, msg), Sent(id, msg) >>
               /\ datastore' = MapSet(datastore, id, msg)
               /\ forwarded' = [node |-> id, msg |-> msg] ]_vars

C19_Witness ==
    /\ lastOp.op = "change"
    /\ lastEvent.value = ObjectValue([payload |-> "p2"])
    /\ Len(trace) = 2
    /\ trace[1].kind = "save" /\ trace[2].kind = "send"
    /\ trace[1].msg = trace[2].msg
    /\ trace[2].msg = [payload |-> "p2", label |-> "l1", via |-> "ab",
                       _client |-> "c1"]
    /\ datastore["w1"] = trace[1].msg

\* the message a send builds: the client's message through the onSend hooks,
\* with the connection's credentials and the widget's beforeSend applied
SendMessage(e) ==
    LET hooked == RunHooks("onSend", FALSE, Carry(e.value.f), 1).msg
        c == MapSet(hooked, "_client", e.conn)
    IN  IF uiWidgets[e.id].hooks.beforeSend = "mark"
        THEN MapSet(c, "prepared", "true") ELSE c

\* C20: the default send handler stores and forwards a message made from the
\* incoming message, the hooks and beforeSend alone, whatever the History
\* Store held for the widget, and afterwards the store holds that message
C20_SendOverwrites ==
    [][ (lastOp'.op = "send" /\ lastEvent'.value.k = "object"
         /\ DefaultHandled(lastEvent'))
        => LET msg == SendMessage(lastEvent')
               id  == lastEvent'.id
           IN  /\ trace' = << Saved(id, msg), Sent(id, msg) >>
               /\ datastore' = MapSet(datastore, id, msg)
               /\ forwarded' = [node |-> id, msg |-> msg] ]_vars

C20_Witness ==
    /\ lastOp.op = "send"
    /\ lastEvent.id = "w1"
    /\ Len(trace) = 2
    /\ trace[1].kind = "save" /\ trace[2].kind = "send"
    /\ datastore["w1"] = [payload |-> "p2", _client |-> "c1"]
    /\ forwarded.msg = [payload |-> "p2", _client |-> "c1"]
    /\ "w1" \in DOMAIN uiWidgets

\* what the claim lets a load emit: the stored message of the id through the
\* onLoad hooks, if the id has a node or the reserved prefix
LoadAnswer(e) ==
    IF e.id \notin nodes /\ ~Reserved(e.id) THEN CarryNull
    ELSE RunHooks("onLoad", FALSE,
                  IF e.id \in DOMAIN datastore THEN Carry(datastore[e.id])
                  ELSE CarryNull, 1)

\* C21: a load emits the stored message of the widget that is left after the
\* onLoad hooks as widget-load:<id> to the requesting connection and to no
\* other, and emits nothing when no message is left or when the id has no node
\* and no reserved prefix; it changes no store, no registry and nothing any
\* connection has received (onLoad hooks that throw set aside)
C21_LoadAnswersRequester ==
    [][ (lastOp'.op = "load" /\ NoHookThrows("onLoad"))
        => LET e == lastEvent'
               answer == LoadAnswer(e)
           IN  /\ trace' = IF answer.st = "msg"
                           THEN << [kind |-> "emit", conn |-> e.conn,
                                    event |-> "widget-load:" \o e.id,
                                    msg |-> answer.msg] >>
                           ELSE << >>
               /\ UNCHANGED <<registryVars, datastore, statestore, nodes,
                              connections, received, emitted, delivered,
                              forwarded>> ]_vars

C21_Witness ==
    /\ lastOp.op = "load"
    /\ connections = {"c1", "c2"}
    /\ "w1" \in DOMAIN datastore
    /\ trace = << Loaded("c2", "w1", datastore["w1"]) >>
    /\ datastore["w1"] = [payload |-> "2", label |-> "l1"]

(***************************************************************************)
(* Properties of the ui-config emission.                                   *)
(***************************************************************************)
\* every key the store holds for the id is in the object, with the store's
\* value
CarriesEntries(object, store, id) ==
    id \in DOMAIN store
    => \A key \in DOMAIN store[id] :
          key \in DOMAIN object /\ object[key] = store[id][key]

\* a ui-config whose widgets (props and state), pages and groups carry the
\* State Store entries of their ids
CarriesStore(cfg, store) ==
    /\ \A w \in DOMAIN cfg.widgets :
          /\ CarriesEntries(cfg.widgets[w].props, store, w)
          /\ CarriesEntries(cfg.widgets[w].state, store, w)
    /\ \A p \in DOMAIN cfg.pages : CarriesEntries(cfg.pages[p], store, p)
    /\ \A g \in DOMAIN cfg.groups : CarriesEntries(cfg.groups[g], store, g)

\* the sockets a step emits the ui-config to: all connections when the timer
\* fires, the new socket when a connection opens
EmittedTo ==
    IF lastOp'.op = "fire" THEN connections
    ELSE IF lastOp'.op = "connect" THEN connections' \ connections
    ELSE {}

\* C22: in every emitted ui-config the props and the state of every widget,
\* every page and every group carry the State Store entries of their id, the
\* State Store value standing where the registered configuration has the key
\* too
C22_MergeOnEmission ==
    [][ \A c \in EmittedTo : CarriesStore(received'[c], statestore) ]_vars

C22_Witness ==
    /\ lastOp.op = "fire"
    /\ "c1" \in connections
    /\ "w1" \in DOMAIN uiWidgets
    /\ "p1" \in DOMAIN statestore /\ "g1" \in DOMAIN statestore
    /\ statestore["w1"].enabled = "false"
    /\ received["c1"].widgets["w1"].state.enabled = "false"
    /\ received["c1"].widgets["w1"].props.enabled = "false"
    /\ received["c1"].pages["p1"].visible = "false"
    /\ received["c1"].groups["g1"].visible = "false"

\* C23: when the timer fires, exactly the sockets in uiShared.connections
\* receive a ui-config, all of them the same one, the registry merged with the
\* State Store as they stand at the firing; a later State Store or registry
\* mutation changes nothing any socket has received
C23_SnapshotAtomicity ==
    [][ /\ lastOp'.op = "fire"
           => \A c \in Sockets :
                 received'[c] = IF c \in connections THEN Snapshot ELSE received[c]
        /\ lastOp'.op = "flow" => received' = received ]_vars

C23_Witness ==
    /\ lastOp.op = "fire"
    /\ connections = Sockets
    /\ received["c1"] = Snapshot
    /\ received["c2"] = Snapshot
    /\ "w1" \in DOMAIN uiWidgets
    /\ "p1" \in DOMAIN statestore
    /\ lastCalls >= 2

\* C24: a connection open adds the socket to uiShared.connections and sends
\* it, in the same step and whether or not an emission is pending, a ui-config
\* with the current registry merged with the current State Store; no other
\* socket receives anything and the debounce timer is left as it is
C24_ImmediateConfigOnOpen ==
    [][ lastOp'.op = "connect"
        => LET new == connections' \ connections
           IN  /\ Cardinality(new) = 1
               /\ \A c \in Sockets :
                     received'[c] = IF c \in new THEN Snapshot ELSE received[c]
               /\ UNCHANGED <<emitConfigRequested, timers, calls, emitted,
                              delivered>> ]_vars

C24_Witness ==
    /\ lastOp.op = "connect"
    /\ emitConfigRequested
    /\ connections = Sockets
    /\ "w1" \in DOMAIN uiWidgets
    /\ statestore["w1"].enabled = "false"
    /\ received["c2"] = Snapshot
    /\ received["c1"] # Snapshot

(***************************************************************************)
(* Properties of register and deregister.                                  *)
(***************************************************************************)
\* C25: a register call that repeats the call before it, with the same
\* arguments, leaves widgets, groups, pages, dashboards, themes and the State
\* Store as the first call left them
C25_RegisterIdempotent ==
    [][ (/\ lastOp.op \in {"register", "register-again"}
         /\ lastOp'.op = "register-again"
         /\ lastOp'.widget = lastOp.widget)
        => UNCHANGED <<uiWidgets, uiGroups, uiPages, uiDashboards, uiThemes,
                       statestore>> ]_vars

\* a step took a widget, a group or a page out of the registry
RemovedSomething ==
    \/ DOMAIN uiWidgets' # DOMAIN uiWidgets
    \/ DOMAIN uiGroups' # DOMAIN uiGroups
    \/ DOMAIN uiPages' # DOMAIN uiPages

\* C26: every register call leaves an emission requested; a deregister call
\* that removes a widget, a group or a page leaves an emission requested, and
\* one that removes nothing sets no timer and leaves the pending flag as it
\* was; no call emits anything itself
C26_ModifyThenSchedule ==
    [][ /\ lastOp'.op = "register" => (emitConfigRequested' /\ received' = received)
        /\ (lastOp'.op = "deregister" /\ ~lastOp'.threw)
           => /\ received' = received
              /\ IF RemovedSomething THEN emitConfigRequested'
                 ELSE UNCHANGED <<emitConfigRequested, timers>> ]_vars

\* C27: once deregister has returned for a widget that declares custom socket
\* events, no live connection still carries that widget's listener for those
\* events, however many connections there are and in whatever order they came
C27_ListenersRemovedOnDeregister ==
    [][ (/\ lastOp'.op \in {"deregister", "close"}
         /\ ~lastOp'.threw
         /\ uiWidgets[lastOp'.widget].onSocket)
        => \A c \in connections' : lastOp'.widget \notin listeners'[c].custom ]_vars

\* C28: when the close handler of the ui-base node has completed, no new
\* connection is handed to the node any more, no connection carries router
\* listeners, and the widget, group and page registries are empty
C28_ShutdownClearsEverything ==
    [][ /\ lastOp'.op = "baseclose"
           => /\ \A c \in connections' : listeners'[c].router = 0
              /\ uiWidgets' = << >>
              /\ uiGroups' = << >>
              /\ uiPages' = << >>
        /\ lastOp'.op = "connect" => running ]_vars

\* the part of C28 that the close handler does keep
C28_ShutdownDetaches ==
    [][ /\ lastOp'.op = "baseclose"
           => \A c \in connections' : listeners'[c].router = 0
        /\ lastOp'.op = "connect" => running ]_vars

\* C29: of two changes of one widget that arrive on one connection, the one
\* that arrived first is saved and forwarded first, whichever of the awaited
\* steps of the two handlers ends first: a handler that ends is never behind
\* an older handler of the same connection and widget
C29_ArrivalOrderKept ==
    [][ Len(pending') < Len(pending)
        => \E i \in 1..Len(pending) :
              /\ pending' = RemoveAt(pending, i)
              /\ \A j \in 1..(i - 1) :
                    \/ pending[j].conn # pending[i].conn
                    \/ pending[j].id # pending[i].id ]_vars

\* without a handler that waits, each change is handled before the next one
\* arrives
C29_NothingSuspended == uiWidgets # << >> /\ widgetDefs["w1"] = PlainDef
                           => pending = << >>

\* C30: the ui-config a ui-base node emits when its debounce timeout fires
\* reaches only the sockets mapped to that node: with two ui-base nodes, a
\* socket mapped to one never gets the ui-config of the other's timeout
C30_EmissionStaysWithOwner ==
    [][ /\ lastOp'.op = "peerfire"
           => \A c \in peerDelivered' : owner[c] = PeerId
        /\ lastOp'.op = "fire"
           => \A c \in Sockets : received'[c] # received[c] => owner[c] = BaseId ]_vars

\* with a single ui-base node every socket of the registry is mapped to it
C30_SingleNodeOwnsAll == peer = "absent" => \A c \in connections : owner[c] = BaseId

\* C31: emitConfigRequested is set exactly while one timeout is outstanding:
\* there is never a second timeout, the flag is cleared by the firing of the
\* timeout and by nothing else, it is cleared also when the emission throws,
\* and a request made while it is clear sets a timeout
C31_FlagTracksTimer ==
    [][ /\ timers' <= 1
        /\ emitConfigRequested' <=> timers' = 1
        /\ (emitConfigRequested /\ ~emitConfigRequested') => lastOp'.op = "fire"
        /\ lastOp'.op = "fire" => ~emitConfigRequested'
        /\ lastOp'.op = "register" => emitConfigRequested' ]_vars

\* the emission of a timeout threw with sockets left unserved, and the flag
\* is clear
C31_Witness ==
    /\ lastOp.op = "fire"
    /\ lastOp.threw
    /\ connections # {}
    /\ ~emitConfigRequested
    /\ timers = 0

\* C32: once requestEmitConfig has been called an emission follows, given
\* that the timeout fires, and what it sends is the registry and the State
\* Store as they stand when it fires, changes made after the request included
C32_EmissionFollowsRequest ==
    emitConfigRequested
        ~> (lastOp.op = "fire" /\ \A c \in connections : received[c] = Snapshot)

\* an emission that carries a State Store change made after the request
C32_Witness ==
    /\ lastOp.op = "fire"
    /\ "c2" \in connections
    /\ "w1" \in DOMAIN uiWidgets
    /\ "g1" \in DOMAIN statestore
    /\ received["c2"].groups["g1"].visible = "false"
    /\ received["c2"] = Snapshot

\* the number of entries the last input appended, and its i-th payload
SentCount == IF sent.payload.k = "array" THEN Len(sent.payload.items) ELSE 1
SentPayload(i) == IF sent.payload.k = "array" THEN sent.payload.items[i]
                  ELSE sent.payload

\* every entry of the history was made from the last input, and the entries
\* stand in the order of the payload's elements
OnlyFromLastInput ==
    /\ \A i \in DOMAIN history :
          /\ history[i].id >= nextId - SentCount
          /\ history[i].topic = sent.topic
          /\ history[i].payload = SentPayload(history[i].id - (nextId - SentCount) + 1)
    /\ \A i, j \in DOMAIN history : i < j => history[i].id < history[j].id

\* no collapse, no count window and no time window is configured
NoWindow ==
    /\ config.xAxisType # "category"
    /\ config.removeOlderPoints = 0
    /\ ~(config.xAxisType = "time" /\ config.removeOlder > 0)

\* C33 as stated: with the action 'replace', after an input with a non-empty
\* payload the history is the entries made from that input, one per element
C33_ReplaceLeavesTheInput ==
    (config.action = "replace" /\ lastInput = "data")
        => (OnlyFromLastInput /\ Len(history) = SentCount)

\* C33: with the action 'replace', after an input with a non-empty payload
\* the history holds only entries made from that input, in element order,
\* and nothing stored before; it holds one per element when no window is
\* configured, and the windows may drop some of them
C33_ReplaceLeavesOnlyTheInput ==
    (config.action = "replace" /\ lastInput = "data")
        => /\ OnlyFromLastInput
           /\ NoWindow => Len(history) = SentCount

\* a second input of two elements has replaced what the first one stored
C33_Witness ==
    /\ config.action = "replace"
    /\ NoWindow
    /\ lastInput = "data"
    /\ inputs >= 2
    /\ nextId > 3
    /\ SentCount = 2
    /\ Len(history) = 2
    /\ history[1].id = nextId - 2

\* the elements of seq at the indices of idx, in order
Sub(seq, idx) ==
    LET F[i \in 0..Len(seq)] ==
            IF i = 0 THEN << >>
            ELSE IF i \in idx THEN Append(F[i - 1], seq[i]) ELSE F[i - 1]
    IN  F[Len(seq)]

\* what one policy alone leaves of seq
LatestOfEachCategory(seq) ==
    Sub(seq, {i \in DOMAIN seq :
                 \A j \in DOMAIN seq : j > i => CategoryKey(seq[j]) # CategoryKey(seq[i])})
LastOfEachLabel(seq, n) ==
    Sub(seq, {i \in DOMAIN seq :
                 Cardinality({j \in DOMAIN seq : j > i /\ seq[j].topic = seq[i].topic}) < n})
NewerThanCutoff(seq, cutoff) ==
    Sub(seq, {i \in DOMAIN seq :
                 HasInstant(seq[i]._datapoint.x) /\ Instant(seq[i]._datapoint.x) > cutoff})

\* the history an input with a non-empty payload starts from, with the
\* entries it appends
Raw ==
    IF config.action = "replace" THEN appended'
    ELSE history \o SubSeq(appended', Len(appended) + 1, Len(appended'))

\* C34: on a categorical axis an input runs the collapse and no count window,
\* even when a maximum point count is configured; on another axis it runs
\* the count window when one is configured; the time window runs after
\* that, and only on a time axis with a duration configured
C34_PolicySelection ==
    [][ (inputs' = inputs + 1 /\ lastInput' = "data")
        => /\ preWindow' = IF config.xAxisType = "category"
                           THEN LatestOfEachCategory(Raw)
                           ELSE IF config.removeOlderPoints > 0
                           THEN LastOfEachLabel(Raw, config.removeOlderPoints)
                           ELSE Raw
           /\ history' = IF config.xAxisType = "time" /\ config.removeOlder > 0
                         THEN NewerThanCutoff(preWindow',
                                 now' - config.removeOlder * config.removeOlderUnit * 1000)
                         ELSE preWindow' ]_vars

\* a categorical chart with a maximum point count holds more entries of one
\* label than that count, and a duration it is configured with has dropped
\* nothing
C34_Witness ==
    /\ config.xAxisType = "category"
    /\ config.removeOlderPoints > 0
    /\ config.removeOlder > 0
    /\ lastInput = "data"
    /\ Len(BySeries(history, "A")) > config.removeOlderPoints
    /\ history = preWindow


\* the message the flow sent with the last input
InputMsg == lastEvent.value.f

\* no onInput hook stops the message, and no step of the listener fails
InputGoesThrough ==
    /\ \A i \in DOMAIN plugins : plugins[i].onInput \notin {"null", "throw"}
    /\ widgetDefs["w1"].beforeSend # "throw"
    /\ widgetDefs["w1"].onInput = "custom" \/ widgetDefs["w1"].topic # "throw"

\* the connections that may be sent a message of the widget
EligibleFor(w, msg) ==
    {c \in connections :
        TypeOf(w) \in acceptsClientConfig
            => IsValidByHooks(c, msg) /\ IsValidBySocketId(c, msg)}

EmitsOf(effects) == {i \in DOMAIN effects : effects[i].kind = "emit"}

\* C35: an input message that no onInput hook suppresses and that is handled
\* without a failure has its enabled, visible and class written to the State
\* Store first, and msg-input:<id> is then emitted once, to the eligible
\* connections, also when passthru keeps the message from being forwarded
C35_InputPath ==
    (lastOp.op = "input" /\ InputGoesThrough)
    => /\ \A prop \in {"enabled", "visible"} :
             HasProperty(InputMsg, prop) => statestore["w1"][prop] = InputMsg[prop]
       /\ HasProperty(InputMsg, "class") \/ HasProperty(InputMsg, "uiClass")
             => statestore["w1"].class =
                   (IF HasProperty(InputMsg, "class") /\ InputMsg.class # ""
                    THEN InputMsg.class
                    ELSE IF HasProperty(InputMsg, "uiClass") THEN InputMsg.uiClass
                    ELSE "undefined")
       /\ Cardinality(EmitsOf(trace)) = 1
       /\ \A e \in EmitsOf(trace) :
             /\ trace[e].event = "msg-input:w1"
             /\ \A i \in DOMAIN trace : trace[i].kind = "state" => i < e
             /\ Cardinality({i \in DOMAIN trace : trace[i].kind = "state"})
                   = Cardinality({prop \in {"enabled", "visible"} :
                                     HasProperty(InputMsg, prop)})
                     + (IF HasProperty(InputMsg, "class")
                           \/ HasProperty(InputMsg, "uiClass") THEN 1 ELSE 0)
             /\ emitted.event = "msg-input:w1"
             /\ delivered = EligibleFor("w1", trace[e].msg)

\* a message with a state update reaches a widget whose passthru is false:
\* nothing is forwarded, one of two connections is eligible and is sent it
C35_Witness ==
    /\ lastOp.op = "input"
    /\ InputGoesThrough
    /\ widgetDefs["w1"].passthru = "false"
    /\ HasProperty(InputMsg, "enabled")
    /\ \A i \in DOMAIN trace : trace[i].kind # "send"
    /\ forwarded.node = Null
    /\ connections = {"c1", "c2"}
    /\ delivered = {"c1"}


\* C36: a close with the removed flag clears the widget's History Store entry
\* and takes the widget out of the registry; a close without the flag takes
\* the widget out of the registry and leaves the History Store as it was;
\* the State Store is the same after either
C36_WidgetClose ==
    [][ lastOp'.op \in {"remove", "close"}
        => /\ "w1" \notin DOMAIN uiWidgets'
           /\ statestore' = statestore
           /\ IF lastOp'.op = "remove"
              THEN /\ "w1" \notin DOMAIN datastore'
                   /\ \A id \in DOMAIN datastore \ {"w1"} :
                         id \in DOMAIN datastore' /\ datastore'[id] = datastore[id]
              ELSE datastore' = datastore ]_vars

\* a widget that was disabled by an input and has its message stored is
\* removed: the history entry is gone, the stored state is still there
C36_Witness ==
    /\ lastOp.op = "remove"
    /\ ~lastOp.threw
    /\ "w1" \notin DOMAIN datastore
    /\ "w1" \notin DOMAIN uiWidgets
    /\ "w1" \in DOMAIN statestore
    /\ statestore["w1"].enabled = "false"


\* C37: a change handler that resumes after its widget was removed, or after
\* the ui-base node was closed, writes nothing to the History Store and
\* forwards nothing
C37_ResultDiscarded ==
    [][ (lastOp'.op \in {"topic", "beforeSend"} /\ ("w1" \notin nodes \/ ~running))
        => datastore' = datastore /\ forwarded' = forwarded ]_vars

\* a widget that was removed has no History Store entry
C37_RemovedHasNoHistory == "w1" \notin nodes => "w1" \notin DOMAIN datastore


\* C38: a deregister for a widget node whose id is not in the registry ends
\* without an error and leaves widgets, groups and pages as they were
C38_DeregisterUnknownCompletes ==
    [][ (/\ lastOp'.op \in {"deregister", "close", "remove"}
         /\ lastOp'.widget # Null
         /\ lastOp'.widget \notin DOMAIN uiWidgets)
        => /\ ~lastOp'.threw
           /\ UNCHANGED <<uiWidgets, uiGroups, uiPages>> ]_vars


\* C39: every live connection has exactly one listener of the router for
\* each of widget-send, widget-action, widget-change and widget-load
C39_OneRouterListener ==
    running => \A c \in open \cap connections : listeners[c].router = 1


\* the payload whose data point the last appended entry carries
LastPayload == IF IsArray(sent.payload)
               THEN sent.payload.items[Len(sent.payload.items)]
               ELSE sent.payload

\* the x of the last input's newest point is left to the chart, which takes
\* the current time
DerivedXIsNow ==
    /\ LastPayload.k = "number" \/ LastPayload.x = Undefined
    /\ (config.categoryType = "json" /\ ~IsArray(sent.payload))
          => \E i \in DOMAIN JsonSeries : In(JsonSeries[i], LastPayload)

\* the last input made an entry on a time axis with a time window
FreshOnTimeWindow ==
    /\ lastInput = "data"
    /\ config.xAxisType = "time"
    /\ config.removeOlder # 0
    /\ DerivedXIsNow

EntryKept(id) == \E i \in DOMAIN history : history[i].id = id

\* C40: on a time axis with a time window, right after an input with a
\* non-empty payload whose derived x is the current time, the history holds
\* the entry just appended, whatever way the series are named
C40_FreshPointSurvives == FreshOnTimeWindow => EntryKept(nextId - 1)

\* the same with the series named by msg.topic or by a property of the payload
C40_FreshPointSurvivesOneSeries ==
    (FreshOnTimeWindow /\ (config.categoryType # "json" \/ IsArray(sent.payload)))
    => EntryKept(nextId - 1)

=============================================================================
